---- MODULE Spec2Model ----
(***************************************************************************)
(* A model of omegga-select: the /select command handler with its          *)
(* confirmation gate and the /selectundo handler (src/omegga.plugin.ts),   *)
(* the interpreter                                                         *)
(* (src/interpret/index.ts) and the filter/transform registry              *)
(* (src/unnamed/part_001, the revision of interpret/funcs.ts that has      *)
(* `and` and the axis-taking position/size filters).                       *)
(*                                                                         *)
(* Strings are sequences of one-character strings, so that toLowerCase,    *)
(* toUpperCase and string concatenation are computed, not assumed.         *)
(* Numbers are integers.                                                   *)
(*                                                                         *)
(* Of the registry, the owner and type filters and the localresize         *)
(* transform are not modelled.  The lexer (src/lex.ts) is modelled on      *)
(* texts without fractional digits.                                        *)
(***************************************************************************)
EXTENDS Integers, Sequences, FiniteSets, TLC

\* ------------------------------------------------------------------------
\* Bounds of the model
\* ------------------------------------------------------------------------
MaxBricks == 3      \* records in an acquired collection
MaxCmds == 2        \* /select invocations in one run of the plugin

\* ------------------------------------------------------------------------
\* Strings
\* ------------------------------------------------------------------------
UpperChars == <<"A","B","C","D","E","F","G","H","I","J","K","L","M",
                "N","O","P","Q","R","S","T","U","V","W","X","Y","Z">>
LowerChars == <<"a","b","c","d","e","f","g","h","i","j","k","l","m",
                "n","o","p","q","r","s","t","u","v","w","x","y","z">>

toLowerChar(c) ==
  IF \E i \in DOMAIN UpperChars : UpperChars[i] = c
    THEN LowerChars[CHOOSE i \in DOMAIN UpperChars : UpperChars[i] = c]
    ELSE c

toUpperChar(c) ==
  IF \E i \in DOMAIN LowerChars : LowerChars[i] = c
    THEN UpperChars[CHOOSE i \in DOMAIN LowerChars : LowerChars[i] = c]
    ELSE c

\* String.prototype.toLowerCase
toLowerCase(s) == [i \in DOMAIN s |-> toLowerChar(s[i])]

\* ------------------------------------------------------------------------
\* Values (src/lex.ts)
\* ------------------------------------------------------------------------
ValueBoolean(b) == [type |-> "boolean", value |-> b]
ValueNumber(n, u) == [type |-> "number", value |-> n, units |-> u]
ValueString(s) == [type |-> "string", value |-> s]
ValueFunc(name, args) ==
  [type |-> "function", value |-> [name |-> name, args |-> args]]
\* A one-ended range: the absent bound is recorded by hasMin / hasMax
\* (undefined in the source), absent units by the empty string.
RangeMin(n, ex, u) ==
  [type |-> "range", hasMin |-> TRUE, min |-> n, minEx |-> ex, minUnits |-> u,
   hasMax |-> FALSE, max |-> 0, maxEx |-> FALSE, maxUnits |-> <<>>]
RangeMax(n, ex, u) ==
  [type |-> "range", hasMin |-> FALSE, min |-> 0, minEx |-> FALSE,
   minUnits |-> <<>>,
   hasMax |-> TRUE, max |-> n, maxEx |-> ex, maxUnits |-> u]

Func(name, args) == [name |-> name, args |-> args]

\* enum Op
OpReplace == "Replace"
OpCopy == "Copy"
OpDelete == "Delete"
OpCount == "Count"
OpExtract == "Extract"
\* getOp of a name that is no operation keyword
OpUndefined == "undefined"

ParseResult(all, op, filters, transforms) ==
  [all |-> all, op |-> op, filters |-> filters, transforms |-> transforms]

\* ------------------------------------------------------------------------
\* The lexer (src/lex.ts).  A Lexer is its trimmed data and a column; the
\* reading methods take the column and return the value read with the
\* column after it, or the ParseError thrown.  Columns count from 0.
\* ------------------------------------------------------------------------
Digits == <<"0","1","2","3","4","5","6","7","8","9">>

\* data[col] past the end of the string
Undefined == "undefined"

isDigit(c) == \E i \in DOMAIN Digits : Digits[i] = c
\* /[A-Za-z]/.test(c): test() converts undefined to the text 'undefined',
\* which holds letters
isAlpha(c) ==
  \/ \E i \in DOMAIN LowerChars : c \in {LowerChars[i], UpperChars[i]}
  \/ c = Undefined
\* /\s/.test(c), for the white space of the inputs
isSpace(c) == c \in {" ", "\t", "\n"}
\* /\w/.test(c)
isWord(c) == (isAlpha(c) /\ c # Undefined) \/ isDigit(c) \/ c = "_"

charAt(data, col) ==
  IF col >= 0 /\ col < Len(data) THEN data[col + 1] ELSE Undefined

\* String.prototype.slice(from, to)
slice(data, from, to) == SubSeq(data, from + 1, to)

eof(data, col) == col >= Len(data)

\* this.error(message, col): the ParseError thrown
error(message, col) == [ok |-> FALSE, message |-> message, col |-> col]
\* A value returned, with this.col after it
Read(value, col) == [ok |-> TRUE, value |-> value, col |-> col]
\* undefined.toLowerCase(): a TypeError, which carries no column
TypeError == [ok |-> FALSE, message |-> "TypeError", col |-> -1]

getOp(name) ==
  LET n == toLowerCase(name)
  IN IF n \in {<<"r","e","p","l","a","c","e">>, <<"s","e","t">>}
       THEN OpReplace
     ELSE IF n \in {<<"c","o","p","y">>, <<"c","p">>}
       THEN OpCopy
     ELSE IF n \in {<<"d","e","l","e","t","e">>, <<"r","e","m","o","v","e">>}
       THEN OpDelete
     ELSE IF n = <<"c","o","u","n","t">>
       THEN OpCount
     ELSE IF n \in {<<"e","x","t","r","a","c","t">>,
                    <<"s","e","p","a","r","a","t","e">>,
                    <<"s","p","l","i","t">>}
       THEN OpExtract
     ELSE OpUndefined

RECURSIVE trimStart(_)
trimStart(s) ==
  IF s # <<>> /\ isSpace(Head(s)) THEN trimStart(Tail(s)) ELSE s

RECURSIVE trimEnd(_)
trimEnd(s) ==
  IF s # <<>> /\ isSpace(s[Len(s)])
    THEN trimEnd(SubSeq(s, 1, Len(s) - 1)) ELSE s

\* String.prototype.trim, of the constructor
trim(s) == trimEnd(trimStart(s))

\* The column after the white space at col
RECURSIVE readWhitespace(_, _)
readWhitespace(data, col) ==
  IF ~eof(data, col) /\ isSpace(charAt(data, col))
    THEN readWhitespace(data, col + 1)
    ELSE col

readOneWhitespace(data, col) ==
  IF ~isSpace(charAt(data, col))
    THEN error("unexpected character", col)
    ELSE Read(TRUE, readWhitespace(data, col + 1))

\* The column after the characters of /[\w?!]/ at col
RECURSIVE identEnd(_, _)
identEnd(data, col) ==
  IF ~eof(data, col)
     /\ (isWord(charAt(data, col)) \/ charAt(data, col) \in {"?", "!"})
    THEN identEnd(data, col + 1)
    ELSE col

\* At the end of the data the test passes on undefined, the buffer is
\* undefined and the column moves past the end.
readIdentifier(data, col) ==
  IF ~isAlpha(charAt(data, col))
    THEN error("expected an identifier, starting with an alphabet character",
               col)
    ELSE Read(<<charAt(data, col)>>
                \o slice(data, col + 1, identEnd(data, col + 1)),
              identEnd(data, col + 1))

\* readConstant of a one-character string
readConstant(data, col, match) ==
  IF charAt(data, col) # match
    THEN error(IF match = "(" THEN "expected ("
               ELSE IF match = ")" THEN "expected )"
               ELSE "expected ,", col)
    ELSE Read(TRUE, col + 1)

\* The column after the characters of /[\d.]/ at col
RECURSIVE numberEnd(_, _)
numberEnd(data, col) ==
  IF ~eof(data, col) /\ (isDigit(charAt(data, col)) \/ charAt(data, col) = ".")
    THEN numberEnd(data, col + 1)
    ELSE col

digitValue(c) == (CHOOSE i \in DOMAIN Digits : Digits[i] = c) - 1

RECURSIVE digitsValue(_)
digitsValue(buf) ==
  IF buf = <<>> THEN 0
  ELSE 10 * digitsValue(SubSeq(buf, 1, Len(buf) - 1)) + digitValue(buf[Len(buf)])

\* The digits of buf before its first dot
RECURSIVE wholePart(_)
wholePart(buf) ==
  IF buf = <<>> \/ Head(buf) = "." THEN <<>>
  ELSE <<Head(buf)>> \o wholePart(Tail(buf))

dots(buf) == Cardinality({i \in DOMAIN buf : buf[i] = "."})

\* isNaN(Number(buf)) of a buffer of /[\d-][\d.]*/: a lone sign or dot, or
\* two dots
isNaN(buf) ==
  \/ dots(buf) > 1
  \/ ~\E i \in DOMAIN buf : isDigit(buf[i])

\* Number(buf).  The numbers of the model are integers: the digits after a
\* dot are read and left out of the value, and no input carries any.
Number(buf) ==
  IF Head(buf) = "-" THEN 0 - digitsValue(wholePart(Tail(buf)))
  ELSE digitsValue(wholePart(buf))

\* The number read, with its units: optional() restores the column when
\* no identifier follows.  An identifier read at the end of the data is
\* undefined, as absent units are.
unitsOf(value, col, units) ==
  IF units.ok
    THEN Read(ValueNumber(value, IF units.value = <<Undefined>>
                                   THEN <<>> ELSE units.value), units.col)
    ELSE Read(ValueNumber(value, <<>>), col)

readNumber(data, col, end) ==
  IF isNaN(slice(data, col, end)) THEN error("invalid number", col)
  ELSE unitsOf(Number(slice(data, col, end)), end,
               readIdentifier(data, readWhitespace(data, end)))

\* The loop of a quoted string: the column it stops at and the buffer
RECURSIVE stringLoop(_, _, _, _, _)
stringLoop(data, col, quote, escape, buf) ==
  IF ~eof(data, col) /\ ~escape /\ charAt(data, col) # quote
    THEN IF ~escape /\ charAt(data, col) = "\\"
           THEN stringLoop(data, col + 1, quote, TRUE, buf)
           ELSE stringLoop(data, col + 1, quote, FALSE,
                           Append(buf, charAt(data, col)))
    ELSE [col |-> col, buf |-> buf]

readString(data, col, end) ==
  IF eof(data, end.col) THEN error("string never terminated", col)
  ELSE Read(ValueString(end.buf), end.col + 1)

BOOLEAN_KEYWORDS ==
  [w \in {<<"o","n">>, <<"y","e","s">>, <<"t","r","u","e">>,
          <<"o","f","f">>, <<"n","o">>, <<"f","a","l","s","e">>}
     |-> w \in {<<"o","n">>, <<"y","e","s">>, <<"t","r","u","e">>}]

\* The word read when no function call is: a boolean keyword or a string
readWord(ident) ==
  IF ~ident.ok THEN ident
  ELSE IF ident.value = <<Undefined>> THEN TypeError
  ELSE IF toLowerCase(ident.value) \in DOMAIN BOOLEAN_KEYWORDS
    THEN Read(ValueBoolean(BOOLEAN_KEYWORDS[toLowerCase(ident.value)]),
              ident.col)
  ELSE Read(ValueString(ident.value), ident.col)

\* optional(() => this.readFunction(true)): a failure of the call, whatever
\* it is, is dropped and the column restored
readCallOrWord(data, col, fn) ==
  IF fn.ok THEN Read(ValueFunc(fn.value.name, fn.value.args), fn.col)
  ELSE readWord(readIdentifier(data, col))

readRange(dir, inclusive, num) ==
  IF ~num.ok THEN num
  ELSE IF num.value.type # "number"
    THEN error("expected a number in the range", num.col)
  ELSE IF dir = ">"
    THEN Read(RangeMin(num.value.value, ~inclusive, num.value.units), num.col)
  ELSE Read(RangeMax(num.value.value, ~inclusive, num.value.units), num.col)

RECURSIVE readValue(_, _)
RECURSIVE readFunction(_, _, _)
RECURSIVE readArguments(_, _, _, _)

\* args.push(this.readValue()); this.readWhitespace()
pushArg(data, name, args, value) ==
  IF ~value.ok THEN value
  ELSE readArguments(data, name, readWhitespace(data, value.col),
                Append(args, value.value))

\* The loop over the arguments of a call, and the closing parenthesis
readArguments(data, name, col, args) ==
  IF ~eof(data, col) /\ charAt(data, col) # ")"
    THEN IF args # <<>>
           THEN IF charAt(data, col) # ","
                  THEN error("expected , and another value", col)
                  ELSE pushArg(data, name, args,
                               readValue(data, readWhitespace(data, col + 1)))
           ELSE pushArg(data, name, args, readValue(data, col))
    ELSE IF readConstant(data, col, ")").ok
           THEN Read(Func(name, args), col + 1)
           ELSE readConstant(data, col, ")")

readCall(data, parensRequired, name, paren) ==
  IF ~name.ok THEN name
  ELSE IF charAt(data, paren) # "("
    THEN IF parensRequired THEN error("expected (", name.col)
         ELSE Read(Func(name.value, <<>>), name.col)
  ELSE readArguments(data, name.value, readWhitespace(data, paren + 1), <<>>)

readFunction(data, col, parensRequired) ==
  readCall(data, parensRequired, readIdentifier(data, col),
           readWhitespace(data, readIdentifier(data, col).col))

readValue(data, col) ==
  IF isDigit(charAt(data, col)) \/ charAt(data, col) = "-"
    THEN readNumber(data, col, numberEnd(data, col + 1))
  ELSE IF charAt(data, col) \in {"\"", "'"}
    THEN readString(data, col,
                    stringLoop(data, col + 1, charAt(data, col), FALSE, <<>>))
  ELSE IF isAlpha(charAt(data, col))
    THEN readCallOrWord(data, col, readFunction(data, col, TRUE))
  ELSE IF charAt(data, col) \in {"<", ">"}
    THEN readRange(charAt(data, col), charAt(data, col + 1) = "=",
                   readValue(data, IF charAt(data, col + 1) = "="
                                     THEN col + 2 ELSE col + 1))
  ELSE error("unknown value", col)

\* The column after the characters of /\w/ at col
RECURSIVE wordEnd(_, _)
wordEnd(data, col) ==
  IF ~eof(data, col) /\ isWord(charAt(data, col))
    THEN wordEnd(data, col + 1)
    ELSE col

\* this.data.toLowerCase().slice(this.col).match(/^\w+/), empty for null
firstWord(data, col) == toLowerCase(slice(data, col, wordEnd(data, col)))

startsWith(data, prefix) ==
  Len(data) >= Len(prefix) /\ SubSeq(data, 1, Len(prefix)) = prefix

RECURSIVE transformsLoop(_, _, _, _, _, _)

\* transformations.push(this.readFunction()), then the white space that
\* must follow unless the data ends
pushTransformation(data, all, op, filters, transforms, fn) ==
  IF ~fn.ok THEN fn
  ELSE IF eof(data, readWhitespace(data, fn.col))
    THEN Read(ParseResult(all, op, filters, Append(transforms, fn.value)),
              readWhitespace(data, fn.col))
  ELSE IF ~readOneWhitespace(data, fn.col).ok
    THEN readOneWhitespace(data, fn.col)
  ELSE transformsLoop(data, readOneWhitespace(data, fn.col).col, all, op,
                      filters, Append(transforms, fn.value))

transformsLoop(data, col, all, op, filters, transforms) ==
  IF eof(data, col)
    THEN Read(ParseResult(all, op, filters, transforms), col)
    ELSE pushTransformation(data, all, op, filters, transforms,
                            readFunction(data, col, FALSE))

RECURSIVE filtersLoop(_, _, _, _)

\* pushFunction with the calls kept as filters at the end of the data
pushFunction_kept(data, all, filters, fn) ==
  IF ~fn.ok THEN fn
  ELSE IF eof(data, fn.col)
    THEN Read(ParseResult(all, OpReplace, Append(filters, fn.value), <<>>),
              fn.col)
  ELSE IF ~readOneWhitespace(data, fn.col).ok
    THEN readOneWhitespace(data, fn.col)
  ELSE filtersLoop(data, readOneWhitespace(data, fn.col).col, all,
                   Append(filters, fn.value))

\* filters.push(this.readFunction()); at the end of the data no operation
\* was found: the filters are the transformations of a Replace
pushFunction(data, all, filters, fn) ==
  IF ~fn.ok THEN fn
  ELSE IF eof(data, fn.col)
    THEN Read(ParseResult(all, OpReplace, <<>>, Append(filters, fn.value)),
              fn.col)
  ELSE IF ~readOneWhitespace(data, fn.col).ok
    THEN readOneWhitespace(data, fn.col)
  ELSE filtersLoop(data, readOneWhitespace(data, fn.col).col, all,
                   Append(filters, fn.value))

\* The operation keyword read: white space must follow unless the data ends
readOp(data, all, filters, op, ident) ==
  IF eof(data, ident.col)
    THEN Read(ParseResult(all, op, filters, <<>>), ident.col)
  ELSE IF ~readOneWhitespace(data, ident.col).ok
    THEN readOneWhitespace(data, ident.col)
  ELSE transformsLoop(data, readOneWhitespace(data, ident.col).col, all, op,
                      filters, <<>>)

filtersLoop(data, col, all, filters) ==
  IF eof(data, col)
    THEN Read(ParseResult(all, OpReplace, <<>>, filters), col)
  ELSE IF firstWord(data, col) # <<>> /\ getOp(firstWord(data, col)) # OpUndefined
    THEN readOp(data, all, filters, getOp(firstWord(data, col)),
                readIdentifier(data, col))
  ELSE pushFunction(data, all, filters, readFunction(data, col, FALSE))

\* new Lexer(line).parse()
parse(line) ==
  IF startsWith(trim(line), <<"a","l","l">>)
    THEN filtersLoop(trim(line),
                     readWhitespace(trim(line),
                                    readIdentifier(trim(line), 0).col),
                     TRUE, <<>>)
    ELSE filtersLoop(trim(line), 0, FALSE, <<>>)

\* ------------------------------------------------------------------------
\* Helpers of the interpreter (src/interpret/index.ts)
\* ------------------------------------------------------------------------
\* A computation that may throw: ok with a value, or the thrown message.
Throw(msg) == [ok |-> FALSE, err |-> msg]
Return(v) == [ok |-> TRUE, err |-> "", value |-> v]

\* testNumber: the closure it returns, applied to `value`.  Only called on a
\* number or a range (testNumber itself throws on anything else).
\* testNumberFn with the bounds tested for truthiness: a bound of 0 counts
\* as absent
testNumberFn_truthy(against, value) ==
  IF against.type = "number"
    THEN value = against.value
    ELSE IF against.hasMax /\ against.max # 0 /\ value >= against.max
              /\ (IF against.maxEx THEN TRUE ELSE value # against.max)
           THEN FALSE
         ELSE IF against.hasMin /\ against.min # 0 /\ value <= against.min
              /\ (IF against.minEx THEN TRUE ELSE value # against.min)
           THEN FALSE
         ELSE TRUE

testNumberFn(against, value) ==
  IF against.type = "number"
    THEN value = against.value
    ELSE IF against.hasMax /\ value >= against.max
              /\ (IF against.maxEx THEN TRUE ELSE value # against.max)
           THEN FALSE
         ELSE IF against.hasMin /\ value <= against.min
              /\ (IF against.minEx THEN TRUE ELSE value # against.min)
           THEN FALSE
         ELSE TRUE

testNumber(against) ==
  IF against.type \in {"number", "range"}
    THEN Return(against)
    ELSE Throw("bad_number_or_range")

numberUnits(n, units) ==
  IF units \in {<<"b","r","i","c","k","s">>, <<"b","r","i","c","k">>,
                <<"b","r">>, <<"b">>}
    THEN Return(n * 12)
  ELSE IF units \in {<<"s","t","u","d","s">>, <<"s","t","u","d">>,
                     <<"s","t">>, <<"s">>}
    THEN Return(n * 10)
  ELSE IF units \in {<<"p","l","a","t","e","s">>, <<"p","l","a","t","e">>,
                     <<"p","l">>}
    THEN Return(n * 4)
  ELSE IF units \in {<<"m","i","c","r","o","s">>, <<"m","i","c","r","o">>,
                     <<"m">>}
    THEN Return(n * 2)
  ELSE IF units = <<>>
    THEN Return(n)
  ELSE Throw("unknown_units")

\* A range bound is converted only when `value.max && value.maxUnits` is
\* truthy: the bound is present and not 0, and its units are not empty.
convertNumberValueUnits(value) ==
  IF value.type \notin {"number", "range"} THEN Return(value)
  ELSE IF value.type = "number"
    THEN LET n == numberUnits(value.value, value.units)
         IN IF n.ok THEN Return(ValueNumber(n.value, <<>>)) ELSE n
  ELSE
    LET convMax == value.hasMax /\ value.max # 0 /\ value.maxUnits # <<>>
        convMin == value.hasMin /\ value.min # 0 /\ value.minUnits # <<>>
        mx == IF convMax THEN numberUnits(value.max, value.maxUnits)
                         ELSE Return(value.max)
        mn == IF convMin THEN numberUnits(value.min, value.minUnits)
                         ELSE Return(value.min)
    IN IF ~mx.ok THEN mx
       ELSE IF ~mn.ok THEN mn
       ELSE Return([type |-> "range",
                    hasMin |-> value.hasMin, min |-> mn.value,
                    minEx |-> value.minEx, minUnits |-> <<>>,
                    hasMax |-> value.hasMax, max |-> mx.value,
                    maxEx |-> value.maxEx, maxUnits |-> <<>>])

\* [axis, factor] pairs; axes are 0, 1, 2 as in the source.
YAW_AXES == << <<0, -1>>, <<1, -1>>, <<0, 1>>, <<1, 1>> >>

\* The remainder operator of JavaScript: the sign follows the dividend.
JsRem(a, b) == IF a >= 0 THEN a % b ELSE -((-a) % b)

\* getYawAxis with the circle cut in halves
getYawAxis_halves(yaw) == YAW_AXES[(JsRem(yaw + 225, 360) \div 180) + 1]

getYawAxis(yaw) == YAW_AXES[(JsRem(yaw + 225, 360) \div 90) + 1]

getAxis(ctx, name) ==
  LET n == toLowerCase(name) IN
  IF n = <<"x">> THEN Return(<<0, 1>>)
  ELSE IF n = <<"y">> THEN Return(<<1, 1>>)
  ELSE IF n = <<"z">> THEN Return(<<2, 1>>)
  ELSE IF n \in {<<"t","o","p">>, <<"u","p">>, <<"u">>} THEN Return(<<2, 1>>)
  ELSE IF n \in {<<"b","o","t","t","o","m">>, <<"d","o","w","n">>, <<"d">>}
    THEN Return(<<2, -1>>)
  ELSE IF n \in {<<"f","o","r","w","a","r","d">>, <<"f","r","o","n","t">>,
                 <<"f">>}
    THEN Return(getYawAxis(ctx.playerTransform.yaw))
  ELSE IF n \in {<<"b","a","c","k","w","a","r","d">>, <<"b","a","c","k">>,
                 <<"b">>}
    THEN Return(getYawAxis(ctx.playerTransform.yaw + 180))
  ELSE IF n \in {<<"l","e","f","t">>, <<"l">>}
    THEN Return(getYawAxis(ctx.playerTransform.yaw + 270))
  ELSE IF n \in {<<"r","i","g","h","t">>, <<"r">>}
    THEN Return(getYawAxis(ctx.playerTransform.yaw + 90))
  ELSE Throw("unknown_axis")

colorsEqual(a, b) == \A i \in 1..3 : a[i] = b[i]

\* ------------------------------------------------------------------------
\* The registry of filters (src/unnamed/part_001)
\* ------------------------------------------------------------------------
\* A compiled filter or transform (the closure `fn(ctx, args)` returns) is a
\* record: its kind k and the values the closure captured.  The result of
\* compiling is FReturn(closure, args) or FThrow(message, args); args is the
\* argument list as the compilation left it (position, centerposition and
\* size write to their arguments).
FThrow(msg, args) ==
  [ok |-> FALSE, err |-> msg, fn |-> [k |-> "none"], args |-> args]
FReturn(fn, args) == [ok |-> TRUE, err |-> "", fn |-> fn, args |-> args]

\* filterMap.get(name): the registration whose aliases hold `name`, or
\* "undefined".  Registrations are named by their first alias.
filterMap_get(name) ==
  IF name = <<"n","o","t">> THEN "not"
  ELSE IF name = <<"o","r">> THEN "or"
  ELSE IF name = <<"a","n","d">> THEN "and"
  ELSE IF name \in {<<"p","o","s","i","t","i","o","n">>, <<"p","o","s">>,
                    <<"p">>} THEN "position"
  ELSE IF name \in {<<"c","e","n","t","e","r","p","o","s","i","t","i","o","n">>,
                    <<"c","e","n","t","e","r","p","o","s">>, <<"c","p">>}
    THEN "centerposition"
  ELSE IF name \in {<<"s","i","z","e">>, <<"s","c","a","l","e">>, <<"s">>}
    THEN "size"
  ELSE IF name \in {<<"m","a","t","e","r","i","a","l","i","n","t","e","n","s",
                      "i","t","y">>,
                    <<"i","n","t","e","n","s","i","t","y">>, <<"i","n","t">>}
    THEN "materialintensity"
  ELSE IF name \in {<<"m","a","t","e","r","i","a","l">>, <<"m","a","t">>}
    THEN "material"
  ELSE IF name \in {<<"v","i","s","i","b","i","l","i","t","y">>,
                    <<"v","i","s","i","b","l","e">>, <<"v","i","s">>,
                    <<"s","h","o","w">>} THEN "visibility"
  ELSE IF name \in {<<"i","n","v","i","s","i","b","l","e">>,
                    <<"i","n","v","i","s">>, <<"h","i","d","e">>,
                    <<"h","i","d","d","e","n">>} THEN "invisible"
  ELSE IF name \in {<<"c","o","l","o","r">>, <<"c","o","l","o","u","r">>,
                    <<"c","o","l">>} THEN "color"
  ELSE IF name \in {<<"c","o","l","l","i","s","i","o","n">>,
                    <<"c","o","l","l","i","d","e">>} THEN "collision"
  ELSE IF name \in {<<"d","e","c","o","l","l","i","d","e">>,
                    <<"u","n","c","o","l","l","i","d","e">>,
                    <<"n","o","c","o","l","l","i","d","e">>} THEN "decollide"
  ELSE "undefined"

\* obj.fn(ctx, args) of the filter registered as `kind`
RECURSIVE filter_fn(_, _, _)

\* The name and the arguments a not/or/and argument refers to: those of a
\* function value, or a bare string and no arguments.
isNestedRef(arg) == arg.type \in {"function", "string"}
fnname(arg) == IF arg.type = "function" THEN arg.value.name ELSE arg.value
fnargs(arg) == IF arg.type = "function" THEN arg.value.args ELSE <<>>

\* The arguments `args` after the nested argument list of args[i] became
\* `nested` (the nested compilation works on the same array object).
withNestedArgs(args, i, nested) ==
  IF args[i].type = "function"
    THEN [args EXCEPT ![i] = ValueFunc(args[i].value.name, nested)]
    ELSE args

\* filters not, from `const fn = filter.fn(ctx, fnargs)` on
notOf(args, fn) ==
  IF ~fn.ok THEN FThrow(fn.err, withNestedArgs(args, 1, fn.args))
  ELSE FReturn([k |-> "not", fn |-> fn.fn], withNestedArgs(args, 1, fn.args))

\* filters not: only args[0] is read
filter_not(ctx, args) ==
  IF Len(args) = 0 THEN FThrow("expected_fn", args)
  ELSE IF ~isNestedRef(args[1]) THEN FThrow("expected_fn", args)
  ELSE IF filterMap_get(fnname(args[1])) = "undefined"
    THEN FThrow("unknown_filter", args)
  ELSE notOf(args, filter_fn(filterMap_get(fnname(args[1])), ctx,
                             fnargs(args[1])))

\* The `for (const arg of args)` loop of or / and from argument i on, fns
\* being the closures pushed so far.
RECURSIVE nestedLoop(_, _, _, _)

\* nestedPush, were a nested filter that does not compile kept as a filter
\* that fails per record instead of failing the command
nestedPush_lazy(ctx, args, i, fns, fn) ==
  nestedLoop(ctx, withNestedArgs(args, i, fn.args), i + 1,
             Append(fns, IF fn.ok THEN fn.fn ELSE [k |-> "false"]))

\* The loop after `obj.fn(ctx, fnargs)` returned or threw fn for argument i
nestedPush(ctx, args, i, fns, fn) ==
  IF ~fn.ok THEN FThrow(fn.err, withNestedArgs(args, i, fn.args))
  ELSE nestedLoop(ctx, withNestedArgs(args, i, fn.args), i + 1,
                  Append(fns, fn.fn))

nestedLoop(ctx, args, i, fns) ==
  IF i > Len(args) THEN FReturn(fns, args)
  ELSE IF ~isNestedRef(args[i]) THEN FThrow("expected_fn", args)
  ELSE IF filterMap_get(fnname(args[i])) = "undefined"
    THEN FThrow("unknown_filter", args)
  ELSE nestedPush(ctx, args, i, fns,
                  filter_fn(filterMap_get(fnname(args[i])), ctx,
                            fnargs(args[i])))

\* or / and, from the end of the loop on: the closure over fns
nestedOf(kind, fns) ==
  IF ~fns.ok THEN fns ELSE FReturn([k |-> kind, fns |-> fns.fn], fns.args)

filter_or(ctx, args) ==
  IF Len(args) = 0 THEN FThrow("expected_fn", args)
  ELSE nestedOf("or", nestedLoop(ctx, args, 1, <<>>))

filter_and(ctx, args) ==
  IF Len(args) = 0 THEN FThrow("expected_fn", args)
  ELSE nestedOf("and", nestedLoop(ctx, args, 1, <<>>))

\* `args[1].value *= factor`, `if (args[1].min) args[1].min *= factor`, ...:
\* the second argument after the position / centerposition / size filter
\* multiplied it by the factor of the axis.
timesFactor(arg, factor) ==
  IF arg.type = "number" THEN [arg EXCEPT !.value = @ * factor]
  ELSE IF arg.type = "range"
    THEN [arg EXCEPT
            !.min = IF arg.hasMin /\ arg.min # 0 THEN @ * factor ELSE @,
            !.max = IF arg.hasMax /\ arg.max # 0 THEN @ * factor ELSE @]
  ELSE arg

\* Sequence helpers
RECURSIVE minOf(_)
minOf(S) ==
  LET x == CHOOSE y \in S : TRUE IN
  IF S = {x} THEN x
  ELSE LET m == minOf(S \ {x}) IN IF x < m THEN x ELSE m
RECURSIVE maxOf(_)
maxOf(S) ==
  LET x == CHOOSE y \in S : TRUE IN
  IF S = {x} THEN x
  ELSE LET m == maxOf(S \ {x}) IN IF x > m THEN x ELSE m

\* A box of the world: center and extent (maxBound - center) on each axis
Box(center, extent) ==
  [center |-> center,
   minBound |-> [a \in 1..3 |-> center[a] - extent[a]],
   maxBound |-> [a \in 1..3 |-> center[a] + extent[a]]]

\* OMEGGA_UTIL.brick.getBounds(save) (the omegga library), on the positions
\* of the bricks: the box around them, its center the midpoint.
getBounds(save) ==
  LET lo == [a \in 1..3 |->
               minOf({save.bricks[n].position[a] : n \in DOMAIN save.bricks})]
      hi == [a \in 1..3 |->
               maxOf({save.bricks[n].position[a] : n \in DOMAIN save.bricks})]
  IN [center |-> [a \in 1..3 |-> (lo[a] + hi[a]) \div 2],
      minBound |-> lo, maxBound |-> hi]

\* getContextBounds(ctx): the bounds of the selection, or those of the save
getContextBounds(ctx) ==
  IF ctx.hasBounds THEN ctx.saveBounds ELSE getBounds(ctx.save)

\* `testNumber(convertNumberValueUnits(args[1]))`
testOf(conv) == IF conv.ok THEN testNumber(conv.value) ELSE conv

\* position, centerposition and size after getAxis returned or threw ax:
\* the closure of `kind` over the axis, the test and, for centerposition,
\* the center of the bounds on the axis.
axisFilterTest(kind, args1, axis, test, ref) ==
  IF ~test.ok THEN FThrow(test.err, args1)
  ELSE IF kind = "centerposition"
    THEN FReturn([k |-> kind, axis |-> axis, test |-> test.value,
                  ref |-> ref], args1)
  ELSE FReturn([k |-> kind, axis |-> axis, test |-> test.value], args1)

axisFilterOf(kind, ctx, args, ax) ==
  IF ~ax.ok THEN FThrow(ax.err, args)
  ELSE axisFilterTest(
         kind, [args EXCEPT ![2] = timesFactor(args[2], ax.value[2])],
         ax.value[1],
         testOf(convertNumberValueUnits(timesFactor(args[2], ax.value[2]))),
         IF kind = "centerposition"
           THEN getContextBounds(ctx).center[ax.value[1] + 1] ELSE 0)

\* The part position, centerposition and size share
axisFilter(kind, ctx, args) ==
  IF Len(args) < 2 \/ args[1].type # "string"
    THEN FThrow("expected_axis_and_number", args)
    ELSE axisFilterOf(kind, ctx, args, getAxis(ctx, args[1].value))

filter_position(ctx, args) == axisFilter("position", ctx, args)
filter_centerposition(ctx, args) == axisFilter("centerposition", ctx, args)
filter_size(ctx, args) == axisFilter("size", ctx, args)

filter_materialintensity(ctx, args) ==
  IF Len(args) = 0 \/ args[1].type \notin {"number", "range"}
    THEN FThrow("expected_intensity", args)
    ELSE FReturn([k |-> "materialintensity", test |-> args[1]], args)

\* OMEGGA_UTIL.brick.BRICK_CONSTANTS.DEFAULT_MATERIALS (the omegga library)
DEFAULT_MATERIALS ==
  {<<"B","M","C","_","G","h","o","s","t">>,
   <<"B","M","C","_","G","h","o","s","t","_","F","a","i","l">>,
   <<"B","M","C","_","P","l","a","s","t","i","c">>,
   <<"B","M","C","_","G","l","o","w">>,
   <<"B","M","C","_","M","e","t","a","l","l","i","c">>,
   <<"B","M","C","_","H","o","l","o","g","r","a","m">>}

\* 'BMC_' + value.split(' ').map(v => v[0].toUpperCase() +
\* v.slice(1).toLowerCase()): every word capitalised, and the array joined
\* with ',' by the string concatenation.  An empty word has no v[0]: a
\* TypeError.
matName(value) ==
  IF value = <<>> \/ value[1] = " " \/ value[Len(value)] = " "
     \/ \E i \in 1..(Len(value) - 1) : value[i] = " " /\ value[i + 1] = " "
    THEN Throw("TypeError")
    ELSE Return(<<"B","M","C","_">> \o
                [i \in DOMAIN value |->
                   IF value[i] = " " THEN ","
                   ELSE IF i = 1 \/ value[i - 1] = " "
                     THEN toUpperChar(value[i])
                     ELSE toLowerChar(value[i])])

\* Array.prototype.indexOf, 0-based, -1 when absent
indexOf(arr, v) ==
  IF \E i \in DOMAIN arr : arr[i] = v
    THEN (CHOOSE i \in DOMAIN arr :
            arr[i] = v /\ \A j \in 1..(i - 1) : arr[j] # v) - 1
    ELSE -1

\* The checks the material filter and the material transform share
materialArgs(ctx, args) ==
  IF Len(args) = 0 THEN Throw("expected_material")
  ELSE IF args[1].type # "string" THEN Throw("expected_material")
  ELSE IF Len(args) >= 2
          /\ (args[2].type # "number"
              \/ args[2].value < 0 \/ args[2].value > 10)
    THEN Throw("bad_intensity")
  ELSE
    LET name == matName(args[1].value) IN
    IF ~name.ok THEN name
    ELSE IF name.value \notin DEFAULT_MATERIALS THEN Throw("unknown_material")
    ELSE Return(name.value)

filter_material(ctx, args) ==
  LET name == materialArgs(ctx, args) IN
  IF ~name.ok THEN FThrow(name.err, args)
  ELSE
    LET index == indexOf(ctx.save.materials, name.value) IN
    IF index = -1 THEN FReturn([k |-> "false"], args)
    ELSE IF Len(args) >= 2 /\ args[2].value # 0
      THEN FReturn([k |-> "material", index |-> index, hasIntensity |-> TRUE,
                    intensity |-> args[2].value], args)
      ELSE FReturn([k |-> "material", index |-> index, hasIntensity |-> FALSE,
                    intensity |-> 0], args)

\* ---- the functions registered as filter and transform at once ----
\* The value closure of each: [k |-> "memo", value |-> v] is memo(v),
\* [k |-> "collision", ...] is (brick) => ({...brick.collision, ...collision}).
value_visibility(ctx, args) ==
  Return([k |-> "memo",
          value |-> IF Len(args) >= 1 /\ args[1].type = "boolean"
                      THEN args[1].value ELSE TRUE])

value_invisible(ctx, args) == Return([k |-> "memo", value |-> FALSE])

value_color(ctx, args) ==
  IF Len(args) = 0
     \/ (args[1].type = "string"
         /\ args[1].value = <<"p","i","c","k","e","r">>)
    THEN Return([k |-> "memo", value |-> ctx.playerColor])
  ELSE IF Len(args) = 1 /\ args[1].type = "number"
    THEN Return([k |-> "memo",
                 value |-> <<args[1].value, args[1].value, args[1].value>>])
  ELSE IF Len(args) = 3 /\ \A i \in 1..3 : args[i].type = "number"
    THEN Return([k |-> "memo",
                 value |-> <<args[1].value, args[2].value, args[3].value>>])
  ELSE Throw("no_color")

\* arg.value.toString() of a string or boolean argument
argToString(arg) ==
  IF arg.type = "boolean"
    THEN (IF arg.value THEN <<"t","r","u","e">> ELSE <<"f","a","l","s","e">>)
    ELSE arg.value

\* A Partial<Collision>: `has` are the keys it holds, `v` their values.
emptyCollision ==
  [has |-> {}, v |-> [player |-> FALSE, weapon |-> FALSE,
                      interaction |-> FALSE, tool |-> FALSE]]

\* One pass of the switch in the collision value function
collisionArg(collision, arg) ==
  LET s == argToString(arg) IN
  IF s = <<"t","r","u","e">>
    THEN [has |-> {"player", "weapon", "interaction", "tool"},
          v |-> [player |-> TRUE, weapon |-> TRUE,
                 interaction |-> TRUE, tool |-> TRUE]]
  ELSE IF s = <<"f","a","l","s","e">>
    THEN [has |-> {"player", "weapon", "interaction", "tool"},
          v |-> [player |-> FALSE, weapon |-> FALSE,
                 interaction |-> FALSE, tool |-> TRUE]]
  ELSE IF s \in {<<"p","l","a","y","e","r">>, <<"p">>}
    THEN [has |-> collision.has \cup {"player"},
          v |-> [collision.v EXCEPT !.player = TRUE]]
  ELSE IF s \in {<<"w","e","a","p","o","n">>, <<"w">>}
    THEN [has |-> collision.has \cup {"weapon"},
          v |-> [collision.v EXCEPT !.weapon = TRUE]]
  ELSE IF s \in {<<"i","n","t","e","r","a","c","t","i","o","n">>, <<"i">>}
    THEN [has |-> collision.has \cup {"interaction"},
          v |-> [collision.v EXCEPT !.interaction = TRUE]]
  ELSE collision

RECURSIVE collisionLoop(_, _, _)
collisionLoop(args, i, collision) ==
  IF i > Len(args) THEN Return(collision)
  ELSE IF args[i].type \in {"string", "boolean"}
    THEN collisionLoop(args, i + 1, collisionArg(collision, args[i]))
    ELSE Throw("bad_flag")

value_collision(ctx, args) ==
  IF Len(args) = 0
    THEN Return([k |-> "memo",
                 value |-> [player |-> TRUE, weapon |-> TRUE,
                            interaction |-> TRUE, tool |-> TRUE]])
    ELSE LET c == collisionLoop(args, 1, emptyCollision) IN
         IF ~c.ok THEN c
         ELSE Return([k |-> "collision", collision |-> c.value])

value_decollide(ctx, args) ==
  Return([k |-> "memo",
          value |-> [player |-> FALSE, weapon |-> FALSE,
                     interaction |-> FALSE, tool |-> TRUE]])

\* The arguments of addFilterAndTransform for the registration `kind`:
\* the property, the value function applied to (ctx, args), the comparator.
commonProp(kind) ==
  IF kind \in {"visibility", "invisible"} THEN "visibility"
  ELSE IF kind = "color" THEN "color"
  ELSE "collision"

commonValue(kind, ctx, args) ==
  IF kind = "visibility" THEN value_visibility(ctx, args)
  ELSE IF kind = "invisible" THEN value_invisible(ctx, args)
  ELSE IF kind = "color" THEN value_color(ctx, args)
  ELSE IF kind = "collision" THEN value_collision(ctx, args)
  ELSE value_decollide(ctx, args)

commonCompare(kind) == IF kind = "color" THEN "color" ELSE "deepEquals"

\* addFilterAndTransform: the filter it registers
addFilterAndTransform_filter(kind, ctx, args) ==
  LET value == commonValue(kind, ctx, args) IN
  IF ~value.ok THEN FThrow(value.err, args)
  ELSE FReturn([k |-> "cmp", prop |-> commonProp(kind),
                value |-> value.value, cmp |-> commonCompare(kind)], args)

filter_fn(kind, ctx, args) ==
  IF kind = "not" THEN filter_not(ctx, args)
  ELSE IF kind = "or" THEN filter_or(ctx, args)
  ELSE IF kind = "and" THEN filter_and(ctx, args)
  ELSE IF kind = "position" THEN filter_position(ctx, args)
  ELSE IF kind = "centerposition" THEN filter_centerposition(ctx, args)
  ELSE IF kind = "size" THEN filter_size(ctx, args)
  ELSE IF kind = "materialintensity" THEN filter_materialintensity(ctx, args)
  ELSE IF kind = "material" THEN filter_material(ctx, args)
  ELSE addFilterAndTransform_filter(kind, ctx, args)

\* ------------------------------------------------------------------------
\* Applying a compiled filter to a brick
\* ------------------------------------------------------------------------
\* OMEGGA_UTIL.brick.getBrickSize / getScaleAxis (the omegga library), for a
\* brick in its default orientation: the size as stored, the axis itself.
getBrickSize(brick) == brick.size
getScaleAxis(brick, axis) == axis

\* value(brick) of a value closure
valueOf(value, brick) ==
  IF value.k = "memo" THEN value.value
  ELSE [player |-> IF "player" \in value.collision.has
                     THEN value.collision.v.player
                     ELSE brick.collision.player,
        weapon |-> IF "weapon" \in value.collision.has
                     THEN value.collision.v.weapon
                     ELSE brick.collision.weapon,
        interaction |-> IF "interaction" \in value.collision.has
                          THEN value.collision.v.interaction
                          ELSE brick.collision.interaction,
        tool |-> IF "tool" \in value.collision.has
                   THEN value.collision.v.tool
                   ELSE brick.collision.tool]

\* deepEquals on the values of one property: structural equality
deepEquals(a, b) == a = b

\* The comparator of color: a palette index (here a 1-tuple) is looked up in
\* ctx.save.colors, an RGB triple is taken as it is.
toCol(c, colors) == IF Len(c) = 1 THEN colors[c[1] + 1] ELSE c
colorCompare(a, b, colors) == colorsEqual(toCol(a, colors), toCol(b, colors))

RECURSIVE applyFilter(_, _, _)

\* Array.prototype.some / every over the compiled nested filters, from
\* index i: the result, and `calls`, the number of nested filters called.
RECURSIVE some(_, _, _, _)
some(fns, brick, colors, i) ==
  IF i > Len(fns) THEN [val |-> FALSE, calls |-> Len(fns)]
  ELSE IF applyFilter(fns[i], brick, colors)
    THEN [val |-> TRUE, calls |-> i]
    ELSE some(fns, brick, colors, i + 1)

\* every, were it to call each nested filter whatever the earlier ones gave
every_eager(fns, brick, colors, i) ==
  [val |-> \A n \in i..Len(fns) : applyFilter(fns[n], brick, colors),
   calls |-> Len(fns)]

RECURSIVE every(_, _, _, _)
every(fns, brick, colors, i) ==
  IF i > Len(fns) THEN [val |-> TRUE, calls |-> Len(fns)]
  ELSE IF ~applyFilter(fns[i], brick, colors)
    THEN [val |-> FALSE, calls |-> i]
    ELSE every(fns, brick, colors, i + 1)

\* The closures the not / or / and filters return
apply_not(fn, brick, colors) == ~applyFilter(fn.fn, brick, colors)
apply_or(fn, brick, colors) == some(fn.fns, brick, colors, 1)
apply_and(fn, brick, colors) == every(fn.fns, brick, colors, 1)

\* fn(brick) for a compiled filter fn; colors is ctx.save.colors
applyFilter(fn, brick, colors) ==
  IF fn.k = "not" THEN apply_not(fn, brick, colors)
  ELSE IF fn.k = "or" THEN apply_or(fn, brick, colors).val
  ELSE IF fn.k = "and" THEN apply_and(fn, brick, colors).val
  ELSE IF fn.k = "position"
    THEN testNumberFn(fn.test, brick.position[fn.axis + 1])
  ELSE IF fn.k = "centerposition"
    THEN testNumberFn(fn.test, brick.position[fn.axis + 1] - fn.ref)
  ELSE IF fn.k = "size"
    THEN testNumberFn(fn.test, getBrickSize(brick)[fn.axis + 1] * 2)
  ELSE IF fn.k = "materialintensity"
    THEN testNumberFn(fn.test, brick.material_intensity)
  ELSE IF fn.k = "false" THEN FALSE
  ELSE IF fn.k = "material"
    THEN brick.material_index = fn.index
         /\ (fn.hasIntensity => brick.material_intensity = fn.intensity)
  ELSE IF fn.cmp = "color"
    THEN colorCompare(brick[fn.prop], valueOf(fn.value, brick), colors)
    ELSE deepEquals(brick[fn.prop], valueOf(fn.value, brick))

\* ------------------------------------------------------------------------
\* The registry of transforms (src/unnamed/part_001)
\* ------------------------------------------------------------------------
\* Compiling a transform may also push a material name to
\* ctx.save.materials: the result carries the table as it left it.
TThrow(msg, args, materials) ==
  [ok |-> FALSE, err |-> msg, fn |-> [k |-> "none"], args |-> args,
   materials |-> materials]
TReturn(fn, args, materials) ==
  [ok |-> TRUE, err |-> "", fn |-> fn, args |-> args, materials |-> materials]

transformMap_get(name) ==
  IF name \in {<<"d","e","l","e","t","e">>, <<"r","e","m","o","v","e">>,
               <<"o","m","i","t">>} THEN "delete"
  ELSE IF name \in {<<"m","a","t","e","r","i","a","l","i","n","t","e","n","s",
                      "i","t","y">>,
                    <<"i","n","t","e","n","s","i","t","y">>, <<"i","n","t">>}
    THEN "materialintensity"
  ELSE IF name \in {<<"t","r","a","n","s","l","a","t","e">>, <<"t">>}
    THEN "translate"
  ELSE IF name \in {<<"r","t">>, <<"r","2">>, <<"r","t","o">>,
                    <<"a","r","t","o">>, <<"a","b","s","r","t","o">>,
                    <<"r","e","s","i","z","e","t","o">>} THEN "resizeto"
  ELSE IF name \in {<<"r">>, <<"a","r">>, <<"a","b","s","r">>,
                    <<"r","e","s","i","z","e">>} THEN "resize"
  ELSE IF name \in {<<"m","a","t","e","r","i","a","l">>, <<"m","a","t">>}
    THEN "material"
  ELSE IF name \in {<<"v","i","s","i","b","i","l","i","t","y">>,
                    <<"v","i","s","i","b","l","e">>, <<"v","i","s">>,
                    <<"s","h","o","w">>} THEN "visibility"
  ELSE IF name \in {<<"i","n","v","i","s","i","b","l","e">>,
                    <<"i","n","v","i","s">>, <<"h","i","d","e">>,
                    <<"h","i","d","d","e","n">>} THEN "invisible"
  ELSE IF name \in {<<"c","o","l","o","r">>, <<"c","o","l","o","u","r">>,
                    <<"c","o","l">>} THEN "color"
  ELSE IF name \in {<<"c","o","l","l","i","s","i","o","n">>,
                    <<"c","o","l","l","i","d","e">>} THEN "collision"
  ELSE IF name \in {<<"d","e","c","o","l","l","i","d","e">>,
                    <<"u","n","c","o","l","l","i","d","e">>,
                    <<"n","o","c","o","l","l","i","d","e">>} THEN "decollide"
  ELSE "undefined"

transform_delete(ctx, args) ==
  TReturn([k |-> "delete"], args, ctx.save.materials)

transform_materialintensity(ctx, args) ==
  IF Len(args) = 0 \/ args[1].type # "number"
    THEN TThrow("expected_intensity", args, ctx.save.materials)
  ELSE IF args[1].value < 0 \/ args[1].value > 10
    THEN TThrow("bad_intensity", args, ctx.save.materials)
  ELSE TReturn([k |-> "materialintensity", val |-> args[1].value], args,
               ctx.save.materials)

transform_translate(ctx, args) ==
  IF Len(args) < 2 \/ args[1].type # "string" \/ args[2].type # "number"
    THEN TThrow("expected_axis_and_number", args, ctx.save.materials)
  ELSE
    LET ax == getAxis(ctx, args[1].value) IN
    IF ~ax.ok THEN TThrow(ax.err, args, ctx.save.materials)
    ELSE
      LET conv == convertNumberValueUnits(args[2]) IN
      IF ~conv.ok THEN TThrow(conv.err, args, ctx.save.materials)
      ELSE TReturn([k |-> "translate", axis |-> ax.value[1],
                    value |-> conv.value.value * ax.value[2]],
                   args, ctx.save.materials)

\* Math.round(value / 2) of an integer: halves round towards +Infinity
roundHalf(value) == (value + 1) \div 2

\* args[2] is the string 'center'
isCenter(args) ==
  Len(args) >= 3 /\ args[3].type = "string"
  /\ args[3].value = <<"c","e","n","t","e","r">>

flipped(dir) ==
  IF dir = "min" THEN "max" ELSE IF dir = "max" THEN "min" ELSE dir

\* resizeto from `let value` on: the value takes the sign of the axis; a
\* negative value is negated and flips dir
resizetoOf(axis, value, dir) ==
  [k |-> "resizeto", axis |-> axis,
   dir |-> IF value < 0 THEN flipped(dir) ELSE dir,
   half |-> roundHalf(IF value < 0 THEN 0 - value ELSE value)]

\* The closure of resize with dir flipped by a negative value as well
resizeOf_flip(axis, factor, value, dir) ==
  [k |-> "resize", axis |-> axis,
   dir |-> IF (factor < 0) # (value < 0) THEN flipped(dir) ELSE dir,
   half |-> roundHalf(value)]

\* resize from `let value` on: the value keeps its sign; an axis of
\* negative factor flips dir
resizeOf(axis, factor, value, dir) ==
  [k |-> "resize", axis |-> axis,
   dir |-> IF factor < 0 THEN flipped(dir) ELSE dir,
   half |-> roundHalf(value)]

\* resizeto and resize after their argument check: getAxis, the
\* conversion, and the closure
resizeFn(kind, ctx, args, ax, conv) ==
  IF ~ax.ok THEN TThrow(ax.err, args, ctx.save.materials)
  ELSE IF ~conv.ok THEN TThrow(conv.err, args, ctx.save.materials)
  ELSE IF kind = "resizeto"
    THEN TReturn(resizetoOf(ax.value[1], conv.value.value * ax.value[2],
                            IF isCenter(args) THEN "center" ELSE "min"),
                 args, ctx.save.materials)
  ELSE TReturn(resizeOf(ax.value[1], ax.value[2], conv.value.value,
                        IF isCenter(args) THEN "center" ELSE "min"),
               args, ctx.save.materials)

transform_resizeto(ctx, args) ==
  IF Len(args) < 2 \/ args[1].type # "string" \/ args[2].type # "number"
    THEN TThrow("expected_number", args, ctx.save.materials)
    ELSE resizeFn("resizeto", ctx, args, getAxis(ctx, args[1].value),
                  convertNumberValueUnits(args[2]))

transform_resize(ctx, args) ==
  IF Len(args) < 2 \/ args[1].type # "string" \/ args[2].type # "number"
    THEN TThrow("expected_number", args, ctx.save.materials)
    ELSE resizeFn("resize", ctx, args, getAxis(ctx, args[1].value),
                  convertNumberValueUnits(args[2]))

transform_material(ctx, args) ==
  LET name == materialArgs(ctx, args) IN
  IF ~name.ok THEN TThrow(name.err, args, ctx.save.materials)
  ELSE
    LET found == indexOf(ctx.save.materials, name.value)
        materials == IF found = -1
                       THEN Append(ctx.save.materials, name.value)
                       ELSE ctx.save.materials
        index == IF found = -1 THEN Len(materials) - 1 ELSE found
    IN TReturn([k |-> "material", index |-> index,
                hasIntensity |-> Len(args) >= 2,
                intensity |-> IF Len(args) >= 2 THEN args[2].value ELSE 0],
               args, materials)

\* addFilterAndTransform: the transform it registers
addFilterAndTransform_transform(kind, ctx, args) ==
  LET value == commonValue(kind, ctx, args) IN
  IF ~value.ok THEN TThrow(value.err, args, ctx.save.materials)
  ELSE TReturn([k |-> "set", prop |-> commonProp(kind),
                value |-> value.value], args, ctx.save.materials)

\* obj.fn(ctx, args) of the transform registered as `kind`
transform_fn(kind, ctx, args) ==
  IF kind = "delete" THEN transform_delete(ctx, args)
  ELSE IF kind = "materialintensity"
    THEN transform_materialintensity(ctx, args)
  ELSE IF kind = "translate" THEN transform_translate(ctx, args)
  ELSE IF kind = "material" THEN transform_material(ctx, args)
  ELSE IF kind = "resizeto" THEN transform_resizeto(ctx, args)
  ELSE IF kind = "resize" THEN transform_resize(ctx, args)
  ELSE addFilterAndTransform_transform(kind, ctx, args)

\* The closures of resizeto: the size is set to half; unless centred, the
\* position moves by the change of the size
apply_resizeto(fn, brick) ==
  IF fn.dir = "center"
    THEN [brick EXCEPT !.size[fn.axis + 1] = fn.half]
    ELSE [brick EXCEPT
            !.size[getScaleAxis(brick, fn.axis) + 1] = fn.half,
            !.position[fn.axis + 1] =
               IF fn.dir = "min"
                 THEN @ + (fn.half - brick.size[getScaleAxis(brick, fn.axis) + 1])
                 ELSE @ + (brick.size[getScaleAxis(brick, fn.axis) + 1] - fn.half)]

\* apply_resize without the shift of the position
apply_resize_still(fn, brick) ==
  [brick |-> [brick EXCEPT
                !.size[getScaleAxis(brick, fn.axis) + 1] = @ + fn.half],
   removed |-> brick.size[getScaleAxis(brick, fn.axis) + 1] + fn.half <= 0]

\* The closures of resize: half is added to the size; a size of 0 or less
\* returns false, the position not moved
apply_resize(fn, brick) ==
  IF fn.dir = "center"
    THEN [brick |-> [brick EXCEPT !.size[fn.axis + 1] = @ + fn.half],
          removed |-> brick.size[fn.axis + 1] + fn.half <= 0]
  ELSE IF brick.size[getScaleAxis(brick, fn.axis) + 1] + fn.half <= 0
    THEN [brick |-> [brick EXCEPT
                       !.size[getScaleAxis(brick, fn.axis) + 1] = @ + fn.half],
          removed |-> TRUE]
  ELSE [brick |-> [brick EXCEPT
                     !.size[getScaleAxis(brick, fn.axis) + 1] = @ + fn.half,
                     !.position[fn.axis + 1] =
                        IF fn.dir = "min" THEN @ + fn.half ELSE @ - fn.half],
        removed |-> FALSE]

\* applyTransform with closures that compute their value and assign nothing
applyTransform_unset(fn, brick) == [brick |-> brick, removed |-> fn.k = "delete"]

\* fn(brick) for a compiled transform: the brick as the closure left it, and
\* `removed`, whether it returned false.
applyTransform(fn, brick) ==
  IF fn.k = "delete" THEN [brick |-> brick, removed |-> TRUE]
  ELSE IF fn.k = "materialintensity"
    THEN [brick |-> [brick EXCEPT !.material_intensity = fn.val],
          removed |-> FALSE]
  ELSE IF fn.k = "translate"
    THEN [brick |-> [brick EXCEPT !.position[fn.axis + 1] = @ + fn.value],
          removed |-> FALSE]
  ELSE IF fn.k = "material"
    THEN [brick |-> [brick EXCEPT
                       !.material_index = fn.index,
                       !.material_intensity =
                          IF fn.hasIntensity THEN fn.intensity ELSE @],
          removed |-> FALSE]
  ELSE IF fn.k = "resizeto"
    THEN [brick |-> apply_resizeto(fn, brick), removed |-> FALSE]
  ELSE IF fn.k = "resize" THEN apply_resize(fn, brick)
  ELSE [brick |-> [brick EXCEPT ![fn.prop] = valueOf(fn.value, brick)],
        removed |-> FALSE]

\* ------------------------------------------------------------------------
\* The world, the players and the state of the plugin
\* ------------------------------------------------------------------------
Brick(id, position, size, material_index, material_intensity, color, visibility, collision) ==
  [id |-> id, position |-> position, size |-> size,
   material_index |-> material_index,
   material_intensity |-> material_intensity, color |-> color,
   visibility |-> visibility, collision |-> collision]

\* The id of a brick stands for the identity of the object: no filter or
\* transform reads it.
AllCollide ==
  [player |-> TRUE, weapon |-> TRUE, interaction |-> TRUE, tool |-> TRUE]

\* The lookup tables of a save
Materials ==
  << <<"B","M","C","_","P","l","a","s","t","i","c">>,
     <<"B","M","C","_","G","l","o","w">>,
     <<"B","M","C","_","M","e","t","a","l","l","i","c">> >>
Colors == << <<255, 255, 255>>, <<0, 0, 0>> >>

\* The kinds of brick a world is built from
BrickKinds ==
  { Brick(0, <<1, 0, 0>>, <<5, 5, 2>>, 1, 5, <<0>>, TRUE, AllCollide),
    Brick(0, <<-1, 0, 0>>, <<5, 5, 6>>, 0, 5, <<255, 255, 255>>, TRUE,
          AllCollide),
    Brick(0, <<5, 0, 4>>, <<10, 5, 2>>, 2, 0, <<1>>, FALSE,
          [player |-> FALSE, weapon |-> FALSE, interaction |-> FALSE,
           tool |-> TRUE]) }

\* Worlds of 1..n bricks, the n-th brick having id n
WorldsOf(n) ==
  UNION { { [k \in 1..len |-> [w[k] EXCEPT !.id = k]] :
              w \in [1..len -> BrickKinds] } : len \in 1..n }

Players == {"host", "builder", "guest"}
isHost(p) == p = "host"
getRoles(p) == IF p = "builder" THEN {"Builder"} ELSE {}

\* The configuration of the plugin
Config ==
  [create_backups |-> TRUE,
   command_authed_roles |-> {"Builder"},
   all_flag_authed_roles |-> {}]

isAuthed(list, roles) == \E r \in roles : r \in list

\* What a player may have selected: nothing, or a box of the world
NoSelection == [has |-> FALSE, box |-> Box(<<0, 0, 0>>, <<0, 0, 0>>)]
Selections ==
  { NoSelection,
    [has |-> TRUE, box |-> Box(<<0, 0, 0>>, <<2, 2, 2>>)],
    [has |-> TRUE, box |-> Box(<<3, 0, 2>>, <<4, 2, 2>>)] }

inRegion(brick, box) ==
  \A a \in 1..3 : /\ brick.position[a] >= box.minBound[a]
                  /\ brick.position[a] <= box.maxBound[a]

VARIABLES
  world,      \* the bricks of the world, in the order a save lists them
  confirms,   \* confirms[player.id]: the invocation waiting for /select ok
  cmds,       \* the invocations of `command` that reached a parse result
  backups,    \* backups[player.id]
  probe       \* the filter under test of SpecFilter

vars == <<world, confirms, cmds, backups, probe>>

NoBackup == [has |-> FALSE, data |-> <<>>, hasBounds |-> FALSE,
             bounds |-> NoSelection.box]

EmptySave == [bricks |-> <<>>, materials |-> <<>>, colors |-> <<>>]

\* One invocation of `command` from the parse result on: where it stands
\* (pc), its timer, the last message whispered to the player about it and
\* the locals of Interpreter.interpret.  confirmed, cancelled, acquired,
\* before (the world when the save was read), tested and matched are
\* history, not program state.
NewCmd(player, parsed, pc) ==
  [player |-> player, parsed |-> parsed, pc |-> pc,
   timer |-> pc = "confirm", confirmed |-> FALSE, cancelled |-> FALSE,
   whispered |-> IF pc = "confirm" THEN "Warning:" ELSE "",
   save |-> EmptySave, hasBounds |-> FALSE, bounds |-> NoSelection.box,
   acquired |-> <<>>, before |-> <<>>,
   playerColor |-> <<0, 0, 0>>, yaw |-> 0,
   localFilters |-> <<>>, localTransforms |-> <<>>,
   i |-> 0, filteredCount |-> 0, deletedCount |-> 0, filterBricks |-> <<>>,
   tested |-> <<>>, matched |-> 0,
   effects |-> <<>>, err |-> "",
   result |-> [has |-> FALSE, total |-> 0, filtered |-> 0]]

\* JavaScript runs a handler to its next await: while an invocation is in
\* the synchronous part of interpret, nothing else runs.
Running == \E c \in DOMAIN cmds : cmds[c].pc \in {"compile", "pass", "commit"}

\* ------------------------------------------------------------------------
\* Interpreter.interpret (src/interpret/index.ts)
\* ------------------------------------------------------------------------
\* The versions a save may have; interpret takes version 10 only
SaveVersions == {9, 10}
Yaws == {0, 135}

\* The catch of `command`: the message is whispered and the invocation ends
Failed(cmd, msg) ==
  [cmd EXCEPT !.pc = "error", !.err = msg, !.whispered = "Error:"]

\* `if (op === Op.Delete) { op = Op.Replace; transforms = [delete] }`
normalizeDelete(parsed) ==
  IF parsed.op = OpDelete
    THEN [parsed EXCEPT !.op = OpReplace,
                        !.transforms = <<Func(<<"d","e","l","e","t","e">>,
                                              <<>>)>>]
    ELSE parsed

\* The backup interpret stores for the player, if any
backupOf(old, parsed, save, hasBounds, bounds) ==
  IF Config.create_backups /\ parsed.op \in {OpReplace, OpExtract}
    THEN [has |-> TRUE, data |-> save, hasBounds |-> hasBounds,
          bounds |-> bounds]
    ELSE old

\* interpret from its call to `await player.getPaint()`: the collection is
\* acquired, the Delete operation normalised, the backup stored.
Acquire(c, sel, version) ==
  /\ c \in DOMAIN cmds
  /\ cmds[c].pc = "acquire"
  /\ ~Running
  /\   LET cmd == cmds[c]
           all == cmd.parsed.all
           bricks == IF all THEN world
                     ELSE SelectSeq(world, LAMBDA b : inRegion(b, sel.box))
           save == [bricks |-> bricks, materials |-> Materials,
                    colors |-> Colors]
           parsed1 == normalizeDelete(cmd.parsed)
       IN IF (~all /\ ~sel.has) \/ bricks = <<>>
            THEN /\ cmds' = [cmds EXCEPT ![c] = Failed(cmd, "no_bricks_selected")]
                 /\ UNCHANGED backups
          ELSE IF version # 10
            THEN /\ cmds' = [cmds EXCEPT ![c] = Failed(cmd, "bad_version")]
                 /\ UNCHANGED backups
          ELSE /\ cmds' = [cmds EXCEPT ![c] =
                             [cmd EXCEPT !.pc = "context",
                                         !.parsed = parsed1,
                                         !.save = save,
                                         !.acquired = bricks,
                                         !.before = world,
                                         !.hasBounds = ~all,
                                         !.bounds = sel.box]]
               /\ backups' = [backups EXCEPT ![cmd.player] =
                                backupOf(@, parsed1, save, ~all, sel.box)]
  /\ UNCHANGED <<world, confirms, probe>>

\* interpret from `await player.getPaint()` to the end of
\* `await getPlayerTransform(player.name)`: the context is built.
Context(c, color, yaw) ==
  /\ c \in DOMAIN cmds
  /\ cmds[c].pc = "context"
  /\ ~Running
  /\ cmds' = [cmds EXCEPT ![c] = [@ EXCEPT !.pc = "compile",
                                           !.playerColor = color,
                                           !.yaw = yaw]]
  /\ UNCHANGED <<world, confirms, backups, probe>>

\* The Context object of an invocation
CtxOf(cmd) ==
  [save |-> cmd.save, hasBounds |-> cmd.hasBounds, saveBounds |-> cmd.bounds,
   playerColor |-> cmd.playerColor, playerTransform |-> [yaw |-> cmd.yaw]]

\* `for (const filter of this.parsed.filters)` from filter j on
RECURSIVE compileFilters(_, _, _, _)

\* The loop after `obj.fn(ctx, filter.args)` returned or threw r for filter j
pushFilter(ctx, filters, j, fns, r) ==
  IF ~r.ok
    THEN [ok |-> FALSE, err |-> r.err, fns |-> fns,
          funcs |-> [filters EXCEPT ![j].args = r.args]]
    ELSE compileFilters(ctx, [filters EXCEPT ![j].args = r.args], j + 1,
                        Append(fns, r.fn))

compileFilters(ctx, filters, j, fns) ==
  IF j > Len(filters)
    THEN [ok |-> TRUE, err |-> "", fns |-> fns, funcs |-> filters]
  ELSE IF filterMap_get(toLowerCase(filters[j].name)) = "undefined"
    THEN [ok |-> FALSE, err |-> "unknown_filter", fns |-> fns,
          funcs |-> filters]
  ELSE pushFilter(ctx, filters, j, fns,
                  filter_fn(filterMap_get(toLowerCase(filters[j].name)), ctx,
                            filters[j].args))

\* `for (const transform of this.parsed.transforms)` from transform j on
RECURSIVE compileTransforms(_, _, _, _)

\* The loop after `obj.fn(ctx, transform.args)` returned or threw r
pushTransform(ctx, transforms, j, fns, r) ==
  IF ~r.ok
    THEN [ok |-> FALSE, err |-> r.err, fns |-> fns,
          funcs |-> [transforms EXCEPT ![j].args = r.args],
          materials |-> r.materials]
    ELSE compileTransforms([ctx EXCEPT !.save.materials = r.materials],
                           [transforms EXCEPT ![j].args = r.args], j + 1,
                           Append(fns, r.fn))

compileTransforms(ctx, transforms, j, fns) ==
  IF j > Len(transforms)
    THEN [ok |-> TRUE, err |-> "", fns |-> fns, funcs |-> transforms,
          materials |-> ctx.save.materials]
  ELSE IF transformMap_get(toLowerCase(transforms[j].name)) = "undefined"
    THEN [ok |-> FALSE, err |-> "unknown_transform", fns |-> fns,
          funcs |-> transforms, materials |-> ctx.save.materials]
  ELSE pushTransform(ctx, transforms, j, fns,
                     transform_fn(
                       transformMap_get(toLowerCase(transforms[j].name)), ctx,
                       transforms[j].args))

\* The invocation after the transform loop returned or threw t
compiledTransforms(cmd, fns, t) ==
  IF ~t.ok
    THEN Failed([cmd EXCEPT !.parsed.transforms = t.funcs,
                            !.save.materials = t.materials], t.err)
    ELSE [cmd EXCEPT !.parsed.transforms = t.funcs,
                     !.save.materials = t.materials,
                     !.pc = "pass",
                     !.localFilters = fns,
                     !.localTransforms = t.fns]

\* The invocation after the filter loop returned or threw f
compiledFilters(cmd, f) ==
  IF ~f.ok THEN Failed([cmd EXCEPT !.parsed.filters = f.funcs], f.err)
  ELSE compiledTransforms([cmd EXCEPT !.parsed.filters = f.funcs], f.fns,
                          compileTransforms(CtxOf(cmd),
                                            cmd.parsed.transforms, 1, <<>>))

\* The two resolution loops of interpret, on the invocation
compiled(cmd) ==
  compiledFilters(cmd, compileFilters(CtxOf(cmd), cmd.parsed.filters, 1, <<>>))

Compile(c) ==
  /\ c \in DOMAIN cmds
  /\ cmds[c].pc = "compile"
  /\ cmds' = [cmds EXCEPT ![c] = compiled(cmds[c])]
  /\ UNCHANGED <<world, confirms, backups, probe>>

\* inFilter, were the first filter the only one asked
inFilter_first(fns, brick, colors, j) ==
  j > Len(fns) \/ applyFilter(fns[j], brick, colors)

\* The filter loop of one record: false at the first filter that fails
RECURSIVE inFilter(_, _, _, _)
inFilter(fns, brick, colors, j) ==
  IF j > Len(fns) THEN TRUE
  ELSE IF ~applyFilter(fns[j], brick, colors) THEN FALSE
  ELSE inFilter(fns, brick, colors, j + 1)

\* The transform loop of one record: the brick as the transforms left it,
\* and whether one of them returned false (the loop breaks there)
RECURSIVE transformed(_, _, _)

\* transformedBy, were the loop to go on after a transform returned false
transformedBy_through(fns, j, r) == transformed(fns, r.brick, j + 1)

\* The transform loop after transform j returned r
transformedBy(fns, j, r) ==
  IF r.removed THEN [brick |-> r.brick, deleted |-> TRUE]
  ELSE transformed(fns, r.brick, j + 1)

transformed(fns, brick, j) ==
  IF j > Len(fns) THEN [brick |-> brick, deleted |-> FALSE]
  ELSE transformedBy(fns, j, applyTransform(fns[j], brick))

\* arr.splice(i, 1), i counted from 0
splice(arr, i) == SubSeq(arr, 1, i) \o SubSeq(arr, i + 2, Len(arr))

\* spliceCursor, were the cursor left where it is: `splice(i, 1)`
spliceCursor_keep(i) == i

\* `i--` of `save.bricks.splice(i--, 1)`
spliceCursor(i) == i - 1

\* recordMatched without the `filteredCount--` of a removal
recordMatched_counted(cmd, i, t) ==
  IF t.deleted
    THEN [cmd EXCEPT !.matched = @ + 1,
                     !.save.bricks = splice(@, i),
                     !.filteredCount = @ + 1,
                     !.deletedCount = @ + 1,
                     !.i = spliceCursor(i) + 1]
  ELSE IF cmd.parsed.op = OpExtract
    THEN [cmd EXCEPT !.matched = @ + 1,
                     !.save.bricks = splice(@, i),
                     !.filterBricks = Append(@, t.brick),
                     !.filteredCount = @ + 1,
                     !.i = spliceCursor(i) + 1]
  ELSE [cmd EXCEPT !.matched = @ + 1,
                   !.save.bricks[i + 1] = t.brick,
                   !.filteredCount = @ + 1,
                   !.i = i + 1]

\* recordMatched without the splice of an extracted record
recordMatched_copied(cmd, i, t) ==
  IF t.deleted
    THEN [cmd EXCEPT !.matched = @ + 1,
                     !.save.bricks = splice(@, i),
                     !.deletedCount = @ + 1,
                     !.i = spliceCursor(i) + 1]
  ELSE IF cmd.parsed.op = OpExtract
    THEN [cmd EXCEPT !.matched = @ + 1,
                     !.save.bricks[i + 1] = t.brick,
                     !.filterBricks = Append(@, t.brick),
                     !.filteredCount = @ + 1,
                     !.i = i + 1]
  ELSE [cmd EXCEPT !.matched = @ + 1,
                   !.save.bricks[i + 1] = t.brick,
                   !.filteredCount = @ + 1,
                   !.i = i + 1]

\* The rest of an iteration whose record passed the filters, t being what
\* the transform loop left of it
recordMatched(cmd, i, t) ==
  IF t.deleted
    THEN [cmd EXCEPT !.matched = @ + 1,
                     !.save.bricks = splice(@, i),
                     !.deletedCount = @ + 1,
                     !.i = spliceCursor(i) + 1]
  ELSE IF cmd.parsed.op = OpExtract
    THEN [cmd EXCEPT !.matched = @ + 1,
                     !.save.bricks = splice(@, i),
                     !.filterBricks = Append(@, t.brick),
                     !.filteredCount = @ + 1,
                     !.i = spliceCursor(i) + 1]
  ELSE [cmd EXCEPT !.matched = @ + 1,
                   !.save.bricks[i + 1] = t.brick,
                   !.filteredCount = @ + 1,
                   !.i = i + 1]

\* One iteration of `for (let i = 0; i < save.bricks.length; i++)` on brick
recordTested(cmd, brick) ==
  IF ~inFilter(cmd.localFilters, brick, cmd.save.colors, 1)
    THEN [cmd EXCEPT !.tested = Append(@, brick.id), !.i = @ + 1]
    ELSE recordMatched([cmd EXCEPT !.tested = Append(@, brick.id)], cmd.i,
                       transformed(cmd.localTransforms, brick, 1))

recordStep(cmd) == recordTested(cmd, cmd.save.bricks[cmd.i + 1])

\* loopEnd, were the commit to start after the first record
loopEnd_early(cmd) == [cmd EXCEPT !.pc = "commit"]

\* The end of the loop: `i < save.bricks.length` is false
loopEnd(cmd) ==
  IF cmd.i < Len(cmd.save.bricks) THEN cmd ELSE [cmd EXCEPT !.pc = "commit"]

RecordStep(c) ==
  /\ c \in DOMAIN cmds
  /\ cmds[c].pc = "pass"
  /\ cmds[c].i < Len(cmds[c].save.bricks)
  /\ cmds' = [cmds EXCEPT ![c] = loopEnd(recordStep(cmds[c]))]
  /\ UNCHANGED <<world, confirms, backups, probe>>

\* Omegga.clearRegion on the world: the bricks outside the box stay
clearRegion(bricks, box) == SelectSeq(bricks, LAMBDA b : ~inRegion(b, box))

\* The side effects of the operation, from `if (filteredCount === 0 && ...)`
\* to the return: the calls issued, and the world they leave.
committed(cmd, bricks) ==
  LET save == cmd.save
      op == cmd.parsed.op
      cleared == IF cmd.parsed.all THEN <<>> ELSE clearRegion(bricks, cmd.bounds)
      clear == IF cmd.parsed.all THEN "clearAllBricks" ELSE "clearRegion"
      load == IF Len(save.bricks) > 0 THEN <<"loadSaveData">> ELSE <<>>
      give == IF Len(cmd.filterBricks) > 0
                THEN <<"player.loadSaveData">> ELSE <<>>
  IN IF op = OpReplace
       THEN [effects |-> <<clear>> \o load, world |-> cleared \o save.bricks]
     ELSE IF op = OpCopy
       THEN [effects |-> IF Len(save.bricks) > 0
                           THEN <<"player.loadSaveData">> ELSE <<>>,
             world |-> bricks]
     ELSE IF op = OpExtract
       THEN [effects |-> <<clear>> \o load \o give,
             world |-> cleared \o save.bricks]
     ELSE [effects |-> <<>>, world |-> bricks]

\* `return { total: save.bricks.length, filtered: filteredCount }`
summary(cmd) ==
  [has |-> TRUE, total |-> Len(cmd.save.bricks), filtered |-> cmd.filteredCount]

Commit(c) ==
  /\ c \in DOMAIN cmds
  /\ cmds[c].pc = "commit"
  /\ LET done == committed(cmds[c], world) IN
       /\ world' = done.world
       /\ cmds' = [cmds EXCEPT ![c] =
                     [@ EXCEPT !.pc = "done",
                               !.effects = done.effects,
                               !.whispered = IF cmds[c].parsed.op = OpCount
                                               THEN "Filtered" ELSE @,
                               !.result = summary(cmds[c])]]
  /\ UNCHANGED <<confirms, backups, probe>>

\* ------------------------------------------------------------------------
\* The /select command (src/omegga.plugin.ts)
\* ------------------------------------------------------------------------
\* A line a player sends: whether args.join(' ') is 'ok', and what
\* parseLine makes of it (a ParseResult, or undefined on a parse error).
Line(isOk, parses, parsed) ==
  [isOk |-> isOk, parses |-> parses, parsed |-> parsed]

\* `confirms[player.id]()`: the timer is cleared, the entry removed, the
\* promise resolved: the invocation goes on to interpret.
confirmed(cmd) ==
  [cmd EXCEPT !.timer = FALSE, !.confirmed = TRUE, !.pc = "acquire",
              !.whispered = "OK, proceeding..."]

\* The other branch: 'Action cancelled.', `delete confirms[player.id]`
cancelled(cmd) ==
  [cmd EXCEPT !.cancelled = TRUE, !.whispered = "Action cancelled."]

\* The timer callback: cleanup(), reject('timed_out'); the rejection is
\* caught by `catch {}` and the invocation goes on to interpret.
timedOut(cmd) == [cmd EXCEPT !.timer = FALSE, !.pc = "acquire"]

\* `command` up to its first await.  The whispers that refuse a line
\* (permission denied, a parse error) leave the state as it is.
Command(p, line) ==
  /\ ~Running
  /\ IF confirms[p] # 0
       THEN IF line.isOk
              THEN /\ cmds' = [cmds EXCEPT ![confirms[p]] = confirmed(@)]
                   /\ confirms' = [confirms EXCEPT ![p] = 0]
              ELSE /\ cmds' = [cmds EXCEPT ![confirms[p]] = cancelled(@)]
                   /\ confirms' = [confirms EXCEPT ![p] = 0]
     ELSE IF ~isHost(p) /\ ~isAuthed(Config.command_authed_roles, getRoles(p))
       THEN UNCHANGED <<cmds, confirms>>
     ELSE IF ~line.parses
       THEN UNCHANGED <<cmds, confirms>>
     ELSE IF line.parsed.all /\ ~isHost(p)
             /\ ~isAuthed(Config.all_flag_authed_roles, getRoles(p))
       THEN UNCHANGED <<cmds, confirms>>
     ELSE /\ Len(cmds) < MaxCmds
          /\ IF line.parsed.all
               THEN /\ cmds' = Append(cmds, NewCmd(p, line.parsed, "confirm"))
                    /\ confirms' = [confirms EXCEPT ![p] = Len(cmds) + 1]
               ELSE /\ cmds' = Append(cmds, NewCmd(p, line.parsed, "acquire"))
                    /\ UNCHANGED confirms
  /\ UNCHANGED <<world, backups, probe>>

\* The 30 s timer of an invocation fires
Timeout(c) ==
  /\ c \in DOMAIN cmds
  /\ cmds[c].timer
  /\ ~Running
  /\ confirms' = [confirms EXCEPT ![cmds[c].player] = 0]
  /\ cmds' = [cmds EXCEPT ![c] = timedOut(@)]
  /\ UNCHANGED <<world, backups, probe>>

\* The world after /selectundo restored the backup: clearRegion over the
\* bounds of the backup, or clearAllBricks, then loadSaveData
restored(bricks, backup) ==
  (IF backup.hasBounds THEN clearRegion(bricks, backup.bounds) ELSE <<>>)
  \o backup.data.bricks

\* The handler of /selectundo.  The whispers that refuse it (permission
\* denied, no backup) leave the state as it is.
SelectUndo(p) ==
  /\ ~Running
  /\ IF ~isHost(p) /\ ~isAuthed(Config.command_authed_roles, getRoles(p))
       THEN UNCHANGED <<world, backups>>
     ELSE IF ~Config.create_backups THEN UNCHANGED <<world, backups>>
     ELSE IF ~backups[p].has THEN UNCHANGED <<world, backups>>
     ELSE /\ backups' = [backups EXCEPT ![p] = NoBackup]
          /\ world' = restored(world, backups[p])
  /\ UNCHANGED <<confirms, cmds, probe>>

\* ------------------------------------------------------------------------
\* Inputs
\* ------------------------------------------------------------------------
n_mat == <<"m","a","t">>
n_glow == <<"g","l","o","w">>
n_metallic == <<"m","e","t","a","l","l","i","c">>
n_x == <<"x">>

\* Lines of the plugin runs: `ok`, `all delete`,
\* `mat(glow) replace invisible`, and `(`, which does not parse
PluginLines ==
  { Line(TRUE, TRUE,
         ParseResult(FALSE, OpReplace, <<>>, <<Func(<<"o","k">>, <<>>)>>)),
    Line(FALSE, TRUE, ParseResult(TRUE, OpDelete, <<>>, <<>>)),
    Line(FALSE, TRUE,
         ParseResult(FALSE, OpReplace,
                     <<Func(n_mat, <<ValueString(n_glow)>>)>>,
                     <<Func(<<"i","n","v","i","s","i","b","l","e">>, <<>>)>>)),
    Line(FALSE, FALSE, ParseResult(FALSE, OpReplace, <<>>, <<>>)) }

NoProbe == [stage |-> "none"]

\* The world of the plugin runs: a glowing brick and a plastic one, both in
\* the box a player may have selected
PluginWorld ==
  << Brick(1, <<1, 0, 0>>, <<5, 5, 2>>, 1, 5, <<0>>, TRUE, AllCollide),
     Brick(2, <<-1, 0, 0>>, <<5, 5, 6>>, 0, 5, <<255, 255, 255>>, TRUE,
           AllCollide) >>
PluginSelections ==
  {NoSelection, [has |-> TRUE, box |-> Box(<<0, 0, 0>>, <<2, 2, 2>>)]}

\* ------------------------------------------------------------------------
\* The plugin: players send lines, timers fire, invocations run
\* ------------------------------------------------------------------------
Init ==
  /\ world = PluginWorld
  /\ confirms = [p \in Players |-> 0]
  /\ cmds = <<>>
  /\ backups = [p \in Players |-> NoBackup]
  /\ probe = NoProbe

Next ==
  \/ \E p \in Players, line \in PluginLines : Command(p, line)
  \/ \E c \in DOMAIN cmds : Timeout(c)
  \/ \E c \in DOMAIN cmds, sel \in PluginSelections : Acquire(c, sel, 10)
  \/ \E c \in DOMAIN cmds : Context(c, <<255, 255, 255>>, 0)
  \/ \E c \in DOMAIN cmds : Compile(c)
  \/ \E c \in DOMAIN cmds : RecordStep(c)
  \/ \E c \in DOMAIN cmds : Commit(c)
  \/ \E p \in Players : SelectUndo(p)

Spec == Init /\ [][Next]_vars

\* ------------------------------------------------------------------------
\* One invocation of Interpreter.interpret, over every input below
\* ------------------------------------------------------------------------
n_delete == <<"d","e","l","e","t","e">>
n_invisible == <<"i","n","v","i","s","i","b","l","e">>
n_bogus == <<"b","o","g","u","s">>
n_not == <<"n","o","t">>
n_or == <<"o","r">>
n_and == <<"a","n","d">>

\* mat(glow), mat(metallic), position(x, >0), visible
f_glow == Func(n_mat, <<ValueString(n_glow)>>)
f_metallic == Func(n_mat, <<ValueString(n_metallic)>>)
f_right == Func(<<"p","o","s","i","t","i","o","n">>,
                <<ValueString(n_x), RangeMin(0, TRUE, <<>>)>>)
f_visible == Func(<<"v","i","s","i","b","l","e">>, <<>>)
\* position(forward, >0): along x at yaw 0, against x at yaw 135
f_forward == Func(<<"p","o","s">>,
                  <<ValueString(<<"f","o","r","w","a","r","d">>),
                    RangeMin(0, TRUE, <<>>)>>)
\* MAT(glow), Position(x, >0)
f_GLOW == Func(<<"M","A","T">>, <<ValueString(n_glow)>>)
f_Right == Func(<<"P","o","s","i","t","i","o","n">>,
                <<ValueString(n_x), RangeMin(0, TRUE, <<>>)>>)
\* mat(bogus), position(q, >0), bogus(glow): bad arguments, an unknown name
f_badmat == Func(n_mat, <<ValueString(n_bogus)>>)
f_badaxis == Func(<<"p","o","s","i","t","i","o","n">>,
                  <<ValueString(<<"q">>), RangeMin(0, TRUE, <<>>)>>)
f_bogus == Func(n_bogus, <<ValueString(n_glow)>>)

\* A filter as an argument: name(args) is a function value
asArg(f) == ValueFunc(f.name, f.args)

\* The filter lists without composition
PlainFilters ==
  { <<>>, <<f_glow>>, <<f_right>>, <<f_GLOW>>, <<f_visible, f_right>>,
    <<f_bogus>>, <<f_glow, f_badaxis>>, <<f_right, f_bogus>> }

\* The filter lists with not / or / and: nested calls, bare names, names
\* in other case, unknown names and bad arguments in each position
NestedFilters ==
  { <<Func(n_not, <<asArg(f_glow)>>)>>,
    <<Func(n_not, <<ValueString(<<"v","i","s","i","b","l","e">>)>>)>>,
    <<Func(n_not, <<asArg(f_GLOW)>>)>>,
    <<Func(n_not, <<asArg(f_bogus)>>)>>,
    <<Func(n_not, <<asArg(f_badmat)>>)>>,
    <<Func(n_not, <<asArg(f_glow), asArg(f_bogus)>>)>>,
    <<Func(n_not, <<ValueNumber(1, <<>>)>>)>>,
    <<Func(n_or, <<asArg(f_glow), asArg(f_metallic)>>)>>,
    <<Func(n_or, <<asArg(f_right), asArg(f_bogus)>>)>>,
    <<Func(n_or, <<asArg(f_bogus), asArg(f_right)>>)>>,
    <<Func(n_or, <<asArg(f_right), asArg(f_badmat)>>)>>,
    <<Func(n_or, <<asArg(f_glow), asArg(f_Right)>>)>>,
    <<Func(n_and, <<asArg(f_right), asArg(f_glow)>>)>>,
    <<Func(n_and, <<asArg(f_right), asArg(f_bogus)>>)>>,
    <<Func(n_and, <<asArg(f_right), asArg(f_badaxis)>>)>>,
    <<Func(n_and, <<asArg(f_GLOW), asArg(f_right)>>)>>,
    <<Func(n_and, <<>>)>>,
    <<f_right, Func(n_or, <<asArg(f_glow), ValueString(n_bogus)>>)>> }

\* The transform lists: none, delete, invisible, translate(x, 12),
\* `invisible delete`, `delete invisible`, `invisible visible`, DELETE, and
\* three that do not compile
PlainTransforms ==
  { <<>>, <<Func(n_delete, <<>>)>>, <<Func(n_invisible, <<>>)>>,
    <<Func(<<"t","r","a","n","s","l","a","t","e">>,
           <<ValueString(n_x), ValueNumber(12, <<>>)>>)>>,
    <<Func(n_invisible, <<>>), Func(n_delete, <<>>)>>,
    <<Func(n_delete, <<>>), Func(n_invisible, <<>>)>>,
    <<Func(n_invisible, <<>>), Func(<<"v","i","s","i","b","l","e">>, <<>>)>>,
    <<Func(<<"D","E","L","E","T","E">>, <<>>)>> }
BadTransforms ==
  { <<Func(n_bogus, <<>>)>>,
    <<Func(n_invisible, <<>>), Func(n_bogus, <<>>)>>,
    <<Func(<<"t","r","a","n","s","l","a","t","e">>,
           <<ValueString(<<"q">>), ValueNumber(12, <<>>)>>)>> }

\* The parse results interpret is run on
InterpInputs ==
  { ParseResult(FALSE, op, f, t) :
      op \in {OpReplace, OpExtract},
      f \in {<<>>, <<f_glow>>, <<f_forward>>}, t \in PlainTransforms }
  \cup { ParseResult(FALSE, OpReplace, f, <<Func(n_invisible, <<>>)>>) :
           f \in PlainFilters \cup NestedFilters }
  \cup { ParseResult(FALSE, op, f, <<Func(n_delete, <<>>)>>) :
           op \in {OpReplace, OpExtract}, f \in NestedFilters }
  \cup { ParseResult(FALSE, op, <<f_right>>, t) :
           op \in {OpReplace, OpExtract}, t \in BadTransforms }
  \cup { ParseResult(all, op, <<f_right>>, <<>>) :
           all \in BOOLEAN, op \in {OpDelete, OpCount, OpCopy} }

InitInterp ==
  /\ world \in WorldsOf(MaxBricks)
  /\ confirms = [p \in Players |-> 0]
  /\ \E parsed \in InterpInputs : cmds = <<NewCmd("host", parsed, "acquire")>>
  /\ backups = [p \in Players |-> NoBackup]
  /\ probe = NoProbe

NextInterp ==
  \/ \E sel \in Selections, version \in SaveVersions : Acquire(1, sel, version)
  \/ \E yaw \in Yaws : Context(1, <<255, 255, 255>>, yaw)
  \/ Compile(1)
  \/ RecordStep(1)
  \/ Commit(1)
  \/ SelectUndo("host")

SpecInterp == InitInterp /\ [][NextInterp]_vars

\* ------------------------------------------------------------------------
\* One composition filter, compiled and applied to one brick
\* ------------------------------------------------------------------------
MaxNested == 3      \* arguments of an or / and under test

\* The valid nested filters: calls and a bare name
NestedArgs ==
  { asArg(f_glow), asArg(f_metallic), asArg(f_right),
    ValueString(<<"v","i","s","i","b","l","e">>) }

ArgLists == UNION { [1..n -> NestedArgs] : n \in 1..MaxNested }

ProbeFilters ==
  { Func(n_not, <<a>>) : a \in NestedArgs }
  \cup { Func(name, args) : name \in {n_or, n_and}, args \in ArgLists }

\* The context a probe is compiled in: a save of the one brick
ProbeCtx(brick) ==
  [save |-> [bricks |-> <<brick>>, materials |-> Materials,
             colors |-> Colors],
   hasBounds |-> FALSE, saveBounds |-> NoSelection.box,
   playerColor |-> <<255, 255, 255>>, playerTransform |-> [yaw |-> 0]]

InitFilter ==
  /\ world = <<>>
  /\ confirms = [p \in Players |-> 0]
  /\ cmds = <<>>
  /\ backups = [p \in Players |-> NoBackup]
  /\ \E f \in ProbeFilters, b \in BrickKinds :
       probe = [stage |-> "parsed", filter |-> f, brick |-> b]

\* obj.fn(ctx, filter.args) of the filter under test
CompileProbe ==
  /\ probe.stage = "parsed"
  /\ probe' = [stage |-> "compiled", filter |-> probe.filter,
               brick |-> probe.brick,
               fn |-> filter_fn(filterMap_get(toLowerCase(probe.filter.name)),
                                ProbeCtx(probe.brick), probe.filter.args)]
  /\ UNCHANGED <<world, confirms, cmds, backups>>

\* The nested filters one evaluation of the closure fn called
callsOf(fn, brick, colors) ==
  IF fn.k = "or" THEN apply_or(fn, brick, colors).calls
  ELSE IF fn.k = "and" THEN apply_and(fn, brick, colors).calls
  ELSE 1

\* ctx.localFilters[j](brick) of the filter under test
ApplyProbe ==
  /\ probe.stage = "compiled"
  /\ probe.fn.ok
  /\ probe' = [stage |-> "applied", filter |-> probe.filter,
               brick |-> probe.brick, fn |-> probe.fn,
               val |-> applyFilter(probe.fn.fn, probe.brick, Colors),
               calls |-> callsOf(probe.fn.fn, probe.brick, Colors)]
  /\ UNCHANGED <<world, confirms, cmds, backups>>

NextFilter == CompileProbe \/ ApplyProbe

SpecFilter == InitFilter /\ [][NextFilter]_vars

\* ------------------------------------------------------------------------
\* The lexer on its own: one line, put together from function calls, an
\* operation keyword and the calls after it, is parsed.
\* ------------------------------------------------------------------------
MaxCalls == 2       \* function calls of a line before its operation keyword

\* cp(right, >0)
t_cp ==
  <<"c","p","(","r","i","g","h","t",","," ",">","0",")">>
\* mat(glow)
t_mat == <<"m","a","t","(","g","l","o","w",")">>
\* mat("gl\"ow")
t_escaped ==
  <<"m","a","t","(","\"","g","l","\\","\"","o","w","\"",")">>
\* mat("glow)
t_unterminated == <<"m","a","t","(","\"","g","l","o","w",")">>
\* mat(glow metallic)
t_nocomma ==
  <<"m","a","t","(","g","l","o","w"," ","m","e","t","a","l","l","i","c",
      ")">>
\* visible
t_visible == <<"v","i","s","i","b","l","e">>
\* size(x, >=5pl)
t_size ==
  <<"s","i","z","e","(","x",","," ",">","=","5","p","l",")">>
\* mat(glow,
t_open == <<"m","a","t","(","g","l","o","w",",">>
\* mat(metallic)
t_metallic ==
  <<"m","a","t","(","m","e","t","a","l","l","i","c",")">>
\* delete
t_delete == <<"d","e","l","e","t","e">>
\* all
t_all == <<"a","l","l">>
\* replace
t_replace == <<"r","e","p","l","a","c","e">>
\* Extract
t_Extract == <<"E","x","t","r","a","c","t">>
\* not(inner)
wrapped(inner) == <<"n","o","t","(">> \o inner \o <<")">>

\* Inner calls that fail when read as the value of an argument
LexInner == {t_unterminated, t_nocomma}

LexCalls ==
  {t_cp, t_mat, t_escaped, t_unterminated, t_nocomma, t_visible, t_size,
   t_open}
  \cup {wrapped(inner) : inner \in LexInner}

LexCallLists == UNION { [1..n -> LexCalls] : n \in 0..MaxCalls }

\* The empty text stands for no operation keyword
LexOps == {<<>>, t_replace, t_Extract}

LexAfter == {<<>>, <<t_metallic>>, <<t_metallic, t_delete>>}

\* The words of a list separated by one space
RECURSIVE joined(_)
joined(words) ==
  IF words = <<>> THEN <<>>
  ELSE IF Len(words) = 1 THEN words[1]
  ELSE words[1] \o <<" ">> \o joined(Tail(words))

lineOf(all, calls, op, after) ==
  joined((IF all THEN <<t_all>> ELSE <<>>) \o calls
         \o (IF op = <<>> THEN <<>> ELSE <<op>>) \o after)

InitLex ==
  /\ world = <<>>
  /\ confirms = [p \in Players |-> 0]
  /\ cmds = <<>>
  /\ backups = [p \in Players |-> NoBackup]
  /\ \E all \in BOOLEAN, calls \in LexCallLists, op \in LexOps,
        after \in LexAfter :
       probe = [stage |-> "line", all |-> all, calls |-> calls, op |-> op,
                after |-> after, line |-> lineOf(all, calls, op, after)]

\* new Lexer(line).parse() of the command handler
ParseLine ==
  /\ probe.stage = "line"
  /\ probe' = [probe EXCEPT !.stage = "parsed"] @@ [res |-> parse(probe.line)]
  /\ UNCHANGED <<world, confirms, cmds, backups>>

NextLex == ParseLine

SpecLex == InitLex /\ [][NextLex]_vars

\* ------------------------------------------------------------------------
\* Properties of the confirmation gate (specification Spec)
\* ------------------------------------------------------------------------
\* C1: an `all` command is handed to the interpreter only if its player
\* answered /select ok while its confirmation was pending; when the 30 s
\* timeout elapses without an answer it is never interpreted.
C1_AllOnlyAfterOk ==
  \A c \in DOMAIN cmds :
    (cmds[c].parsed.all /\ cmds[c].pc # "confirm") => cmds[c].confirmed

\* C2: after a player with a pending confirmation sent a line other than
\* `ok`, the player has been told 'Action cancelled.' and the pending command
\* is never interpreted, not even after its timer fired.
C2_CancelledStaysCancelled ==
  \A c \in DOMAIN cmds :
    cmds[c].cancelled =>
      cmds[c].pc = "confirm" /\ cmds[c].whispered = "Action cancelled."

\* ------------------------------------------------------------------------
\* Properties of interpret (specification SpecInterp)
\* ------------------------------------------------------------------------
ids(bricks) == [n \in DOMAIN bricks |-> bricks[n].id]
passed(cmd) == cmd.pc \in {"commit", "done"}
failedCompiling(cmd) ==
  cmd.pc = "error" /\ cmd.err \notin {"no_bricks_selected", "bad_version"}

\* C3: no commit side effect is issued unless every filter and transform
\* compiled and the per-record pass ran over every record; when resolution
\* or compilation fails, no record has been tested, mutated or removed.
C3_CommitOnlyAfterFullPass ==
  \A c \in DOMAIN cmds :
    /\ cmds[c].effects # <<>> =>
         /\ cmds[c].pc = "done"
         /\ Len(cmds[c].localFilters) = Len(cmds[c].parsed.filters)
         /\ Len(cmds[c].localTransforms) = Len(cmds[c].parsed.transforms)
         /\ cmds[c].tested = ids(cmds[c].acquired)
    /\ failedCompiling(cmds[c]) =>
         /\ cmds[c].effects = <<>>
         /\ cmds[c].tested = <<>>
         /\ cmds[c].save.bricks = cmds[c].acquired

C3_Witness ==
  \E c \in DOMAIN cmds :
    /\ cmds[c].pc = "done"
    /\ cmds[c].effects = <<"clearRegion", "loadSaveData">>
    /\ Len(cmds[c].acquired) >= 2
    /\ Len(cmds[c].localFilters) >= 1
    /\ Len(cmds[c].localTransforms) >= 1

\* The acquired records that pass every compiled filter
matching(cmd) ==
  { n \in DOMAIN cmd.acquired :
      inFilter(cmd.localFilters, cmd.acquired[n], cmd.save.colors, 1) }

\* C4: for Replace, after the pass, filtered count + deleted count is the
\* number of acquired records matching all filters, and the remaining
\* collection has the original size minus the deleted count.
C4_DeletionCount ==
  \A c \in DOMAIN cmds :
    (passed(cmds[c]) /\ cmds[c].parsed.op = OpReplace) =>
      /\ cmds[c].filteredCount + cmds[c].deletedCount
           = Cardinality(matching(cmds[c]))
      /\ Len(cmds[c].save.bricks)
           = Len(cmds[c].acquired) - cmds[c].deletedCount

C4_Witness ==
  \E c \in DOMAIN cmds :
    /\ passed(cmds[c]) /\ cmds[c].parsed.op = OpReplace
    /\ Len(cmds[c].acquired) = 3
    /\ cmds[c].deletedCount = 2
    /\ Len(cmds[c].parsed.filters) >= 1

\* Where the record with this id stood in the acquired collection
posIn(acquired, id) == CHOOSE n \in DOMAIN acquired : acquired[n].id = id
keepsOrder(bricks, acquired) ==
  \A a, b \in DOMAIN bricks :
    a < b => posIn(acquired, bricks[a].id) < posIn(acquired, bricks[b].id)
occurs(bricks, id) == \E n \in DOMAIN bricks : bricks[n].id = id

\* C5: for Extract, after the pass every record of the original collection
\* is in exactly one of the remaining and the extracted collection, and
\* each of the two keeps the original relative order.
C5_ExtractPartition ==
  \A c \in DOMAIN cmds :
    (passed(cmds[c]) /\ cmds[c].parsed.op = OpExtract) =>
      /\ \A n \in DOMAIN cmds[c].acquired :
           occurs(cmds[c].save.bricks, cmds[c].acquired[n].id)
             # occurs(cmds[c].filterBricks, cmds[c].acquired[n].id)
      /\ keepsOrder(cmds[c].save.bricks, cmds[c].acquired)
      /\ keepsOrder(cmds[c].filterBricks, cmds[c].acquired)

\* The acquired record n passes the filters and a transform removes it
removedByTransform(cmd, n) ==
  /\ n \in matching(cmd)
  /\ transformed(cmd.localTransforms, cmd.acquired[n], 1).deleted

\* C5, amended: for Extract, after the pass every record of the original
\* collection that no transform removed is in exactly one of the remaining
\* and the extracted collection, a record a transform removed is in
\* neither, and each of the two keeps the original relative order.
C5_ExtractPartitionOfKept ==
  \A c \in DOMAIN cmds :
    (passed(cmds[c]) /\ cmds[c].parsed.op = OpExtract) =>
      /\ \A n \in DOMAIN cmds[c].acquired :
           IF removedByTransform(cmds[c], n)
             THEN /\ ~occurs(cmds[c].save.bricks, cmds[c].acquired[n].id)
                  /\ ~occurs(cmds[c].filterBricks, cmds[c].acquired[n].id)
             ELSE occurs(cmds[c].save.bricks, cmds[c].acquired[n].id)
                    # occurs(cmds[c].filterBricks, cmds[c].acquired[n].id)
      /\ keepsOrder(cmds[c].save.bricks, cmds[c].acquired)
      /\ keepsOrder(cmds[c].filterBricks, cmds[c].acquired)

C5_Witness ==
  \E c \in DOMAIN cmds :
    /\ passed(cmds[c]) /\ cmds[c].parsed.op = OpExtract
    /\ Len(cmds[c].acquired) = 3
    /\ Len(cmds[c].filterBricks) = 2
    /\ Len(cmds[c].save.bricks) = 1

\* C6: the summary's total is the number of records considered, the size
\* of the collection as acquired, whatever the pass deleted or extracted.
C6_TotalIsAcquiredSize ==
  \A c \in DOMAIN cmds :
    cmds[c].result.has => cmds[c].result.total = Len(cmds[c].acquired)

\* C7: the pass tests every acquired record exactly once, in the original
\* order: none is revisited and none is skipped, whichever are removed or
\* extracted.
C7_IndexStable ==
  \A c \in DOMAIN cmds :
    /\ Len(cmds[c].tested) <= Len(cmds[c].acquired)
    /\ cmds[c].tested = SubSeq(ids(cmds[c].acquired), 1, Len(cmds[c].tested))
    /\ passed(cmds[c]) => cmds[c].tested = ids(cmds[c].acquired)

C7_Witness ==
  \E c \in DOMAIN cmds :
    /\ passed(cmds[c])
    /\ Len(cmds[c].acquired) = 3
    /\ Len(cmds[c].save.bricks) = 1
    /\ cmds[c].save.bricks[1].id = cmds[c].acquired[2].id

\* ------------------------------------------------------------------------
\* Properties of not / or / and
\* ------------------------------------------------------------------------
\* What the nested filter arg gives for the brick when it is compiled on its
\* own, as a filter of the command would be
nestedVal(arg, brick) ==
  applyFilter(filter_fn(filterMap_get(toLowerCase(fnname(arg))),
                        ProbeCtx(brick), fnargs(arg)).fn,
              brick, Colors)

\* The first argument whose nested filter gives v, or the last argument
firstGiving(args, brick, v) ==
  IF \E n \in DOMAIN args : nestedVal(args[n], brick) = v
    THEN CHOOSE n \in DOMAIN args :
           /\ nestedVal(args[n], brick) = v
           /\ \A m \in 1..(n - 1) : nestedVal(args[m], brick) # v
    ELSE Len(args)

\* C8: for every record and every list of valid nested filters, not(f) is
\* true exactly when f is false, or(f1..fn) iff some fi is true, and(f1..fn)
\* iff all fi are true, and an evaluation of or / and calls the nested
\* filters up to the first one that determines the result, no further.
C8_Composition ==
  probe.stage = "applied" =>
    /\ probe.fn.fn.k = "not" =>
         probe.val = ~nestedVal(probe.filter.args[1], probe.brick)
    /\ probe.fn.fn.k = "or" =>
         /\ probe.val = (\E n \in DOMAIN probe.filter.args :
                           nestedVal(probe.filter.args[n], probe.brick))
         /\ probe.calls = firstGiving(probe.filter.args, probe.brick, TRUE)
    /\ probe.fn.fn.k = "and" =>
         /\ probe.val = (\A n \in DOMAIN probe.filter.args :
                           nestedVal(probe.filter.args[n], probe.brick))
         /\ probe.calls = firstGiving(probe.filter.args, probe.brick, FALSE)

C8_Witness ==
  /\ probe.stage = "applied"
  /\ probe.fn.fn.k = "and"
  /\ Len(probe.filter.args) = 3
  /\ ~probe.val
  /\ probe.calls = 2

\* The composition filters of a list, and the arguments each one reads:
\* every argument of or / and, the first argument of not
isComposition(f) ==
  filterMap_get(toLowerCase(f.name)) \in {"not", "or", "and"}
unknownName(arg) ==
  isNestedRef(arg) /\ filterMap_get(toLowerCase(fnname(arg))) = "undefined"
readArgs(f) ==
  IF filterMap_get(toLowerCase(f.name)) = "not"
    THEN DOMAIN f.args \cap {1} ELSE DOMAIN f.args

\* The nested argument compiles when it stands as a filter of its own
nestedCompiles(cmd, arg) ==
  /\ isNestedRef(arg)
  /\ filterMap_get(fnname(arg)) # "undefined"
  /\ filter_fn(filterMap_get(fnname(arg)), CtxOf(cmd), fnargs(arg)).ok

\* C9: an unknown nested filter name in any argument position of a
\* not / or / and, or invalid nested arguments, fail the whole command when
\* the enclosing filter is compiled: before any record is evaluated, never
\* per record, never after a record was mutated.
C9_NestedFailAtCompile ==
  \A c \in DOMAIN cmds :
    /\ (\E j \in DOMAIN cmds[c].parsed.filters :
          /\ isComposition(cmds[c].parsed.filters[j])
          /\ \E a \in DOMAIN cmds[c].parsed.filters[j].args :
               unknownName(cmds[c].parsed.filters[j].args[a]))
         => cmds[c].pc \in {"acquire", "context", "compile", "error"}
    /\ failedCompiling(cmds[c]) =>
         cmds[c].tested = <<>> /\ cmds[c].save.bricks = cmds[c].acquired

\* C9, amended: or / and resolve and compile every argument, and not its
\* first argument (the further arguments of not are not read), when the
\* enclosing filter is compiled: if one of these names is unknown or its
\* arguments are invalid the whole command fails before any record is
\* evaluated, never per record, never after a record was mutated.
C9_ReadNestedFailAtCompile ==
  \A c \in DOMAIN cmds :
    /\ cmds[c].pc \in {"pass", "commit", "done"} =>
         \A j \in DOMAIN cmds[c].parsed.filters :
           isComposition(cmds[c].parsed.filters[j]) =>
             \A a \in readArgs(cmds[c].parsed.filters[j]) :
               nestedCompiles(cmds[c], cmds[c].parsed.filters[j].args[a])
    /\ failedCompiling(cmds[c]) =>
         cmds[c].tested = <<>> /\ cmds[c].save.bricks = cmds[c].acquired

C9_Witness ==
  \E c \in DOMAIN cmds :
    /\ cmds[c].pc = "error"
    /\ cmds[c].err = "unknown_filter"
    /\ Len(cmds[c].acquired) >= 2
    /\ \E j \in DOMAIN cmds[c].parsed.filters :
         /\ filterMap_get(cmds[c].parsed.filters[j].name) = "or"
         /\ ~unknownName(cmds[c].parsed.filters[j].args[1])
         /\ unknownName(cmds[c].parsed.filters[j].args[2])

\* A value, a call and an invocation with every function name in lower case
RECURSIVE lowerValue(_)
lowerValue(v) ==
  IF v.type = "function"
    THEN ValueFunc(toLowerCase(v.value.name),
                   [n \in DOMAIN v.value.args |-> lowerValue(v.value.args[n])])
    ELSE v
lowerFunc(f) ==
  Func(toLowerCase(f.name), [n \in DOMAIN f.args |-> lowerValue(f.args[n])])
lowerNames(cmd) ==
  [cmd EXCEPT !.parsed.filters = [j \in DOMAIN @ |-> lowerFunc(@[j])],
              !.parsed.transforms = [j \in DOMAIN @ |-> lowerFunc(@[j])]]

\* The outcome of the resolution loops on an invocation
resolution(cmd) ==
  [pc |-> cmd.pc, err |-> cmd.err, localFilters |-> cmd.localFilters,
   localTransforms |-> cmd.localTransforms]

\* C10: function names are looked up case-insensitively wherever a name is
\* resolved through the registry: top-level filters, top-level transforms
\* and filters given as arguments of not / or / and.  An invocation about
\* to be compiled resolves as the same invocation in lower case does.
C10_CaseInsensitive ==
  \A c \in DOMAIN cmds :
    cmds[c].pc = "compile" =>
      resolution(compiled(cmds[c])) = resolution(compiled(lowerNames(cmds[c])))

\* ------------------------------------------------------------------------
\* A numeric argument on its own: the text of a number or a one-ended
\* range is read as the second argument of a call, converted to base
\* units and tested against a number next to its bound.
\* ------------------------------------------------------------------------
MaxNum == 2         \* the numbers written are -MaxNum .. MaxNum

\* The text of a natural number
RECURSIVE digitsOf(_)
digitsOf(n) ==
  IF n < 10 THEN <<Digits[n + 1]>>
  ELSE digitsOf(n \div 10) \o <<Digits[(n % 10) + 1]>>

numeral(n) == IF n < 0 THEN <<"-">> \o digitsOf(0 - n) ELSE digitsOf(n)

\* Nothing for a plain number, or the sign of a one-ended range
NumPrefixes == {<<>>, <<">">>, <<">","=">>, <<"<">>, <<"<","=">>}

\* bricks, st, pl, m, no suffix, and a suffix that is no unit
NumUnits ==
  {<<"b","r","i","c","k","s">>, <<"s","t">>, <<"p","l">>, <<"m">>, <<>>,
   <<"b","o","g","u","s">>}

\* pos(x, <prefix><n><units>)
numLine(prefix, n, units) ==
  <<"p","o","s","(","x",","," ">> \o prefix \o numeral(n) \o units \o <<")">>

InitNum ==
  /\ world = <<>>
  /\ confirms = [p \in Players |-> 0]
  /\ cmds = <<>>
  /\ backups = [p \in Players |-> NoBackup]
  /\ \E prefix \in NumPrefixes, n \in (0 - MaxNum)..MaxNum, units \in NumUnits :
       probe = [stage |-> "line", prefix |-> prefix, n |-> n, units |-> units,
                line |-> numLine(prefix, n, units)]

\* this.readFunction() of the line: the value is its second argument
ReadNum ==
  /\ probe.stage = "line"
  /\ probe' = [probe EXCEPT !.stage = "read"]
                @@ [read |-> readFunction(probe.line, 0, FALSE)]
  /\ UNCHANGED <<world, confirms, cmds, backups>>

\* convertNumberValueUnits(args[1])
ConvertNum ==
  /\ probe.stage = "read"
  /\ probe.read.ok
  /\ probe' = [probe EXCEPT !.stage = "converted"]
                @@ [conv |-> convertNumberValueUnits(probe.read.value.args[2])]
  /\ UNCHANGED <<world, confirms, cmds, backups>>

\* The number or the bound of a converted value
boundOf(value) ==
  IF value.type = "number" THEN value.value
  ELSE IF value.hasMin THEN value.min ELSE value.max

\* testNumber(converted)(v), for v next to the bound
TestNum ==
  /\ probe.stage = "converted"
  /\ probe.conv.ok
  /\ testNumber(probe.conv.value).ok
  /\ \E d \in -1..1 :
       probe' = [probe EXCEPT !.stage = "tested"]
                  @@ [v |-> boundOf(probe.conv.value) + d,
                      val |-> testNumberFn(testNumber(probe.conv.value).value,
                                           boundOf(probe.conv.value) + d)]
  /\ UNCHANGED <<world, confirms, cmds, backups>>

NextNum == ReadNum \/ ConvertNum \/ TestNum

SpecNum == InitNum /\ [][NextNum]_vars

\* ------------------------------------------------------------------------
\* A function registered as both filter and transform, on its own: its
\* transform is compiled and applied to a brick, then its filter is
\* compiled with the same arguments and applied to that brick.
\* ------------------------------------------------------------------------
MaxFlags == 2       \* arguments of a collision call

Collisions ==
  [player : BOOLEAN, weapon : BOOLEAN, interaction : BOOLEAN, tool : BOOLEAN]

\* The brick kinds with every collision record
RoundBricks == {[b EXCEPT !.collision = c] : b \in BrickKinds, c \in Collisions}

\* on, off, player, w, interaction, and a name that is no flag
FlagArgs ==
  {ValueBoolean(TRUE), ValueBoolean(FALSE),
   ValueString(<<"p","l","a","y","e","r">>), ValueString(<<"w">>),
   ValueString(<<"i","n","t","e","r","a","c","t","i","o","n">>),
   ValueString(<<"t","o","o","l">>)}

ColorArgs == {ValueNumber(0, <<>>), ValueNumber(100, <<>>), ValueNumber(255, <<>>)}

\* The valid calls of visibility, invisible, color, collision, decollide
RoundCalls ==
  { Func(<<"v","i","s","i","b","l","e">>, args) :
      args \in {<<>>, <<ValueBoolean(TRUE)>>, <<ValueBoolean(FALSE)>>} }
  \cup { Func(<<"H","i","d","e">>, <<>>),
         Func(<<"c","o","l","o","r">>, <<>>),
         Func(<<"c","o","l","o","r">>, <<ValueString(<<"p","i","c","k","e","r">>)>>),
         Func(<<"d","e","c","o","l","l","i","d","e">>, <<>>) }
  \cup { Func(<<"c","o","l">>, <<a>>) : a \in ColorArgs }
  \cup { Func(<<"c","o","l","o","u","r">>, <<a, b, a>>) : a, b \in ColorArgs }
  \cup { Func(<<"c","o","l","l","i","s","i","o","n">>, args) :
           args \in UNION { [1..n -> FlagArgs] : n \in 0..MaxFlags } }

InitRound ==
  /\ world = <<>>
  /\ confirms = [p \in Players |-> 0]
  /\ cmds = <<>>
  /\ backups = [p \in Players |-> NoBackup]
  /\ \E f \in RoundCalls, b \in RoundBricks :
       probe = [stage |-> "parsed", call |-> f, brick |-> b]

\* obj.fn(ctx, transform.args) of the call as a transform
CompileTransform ==
  /\ probe.stage = "parsed"
  /\ probe' = [probe EXCEPT !.stage = "compiled"]
       @@ [tf |-> transform_fn(transformMap_get(toLowerCase(probe.call.name)),
                               ProbeCtx(probe.brick), probe.call.args)]
  /\ UNCHANGED <<world, confirms, cmds, backups>>

\* ctx.localTransforms[j](brick)
ApplyTransform ==
  /\ probe.stage = "compiled"
  /\ probe.tf.ok
  /\ probe' = [probe EXCEPT !.stage = "transformed"]
       @@ [after |-> applyTransform(probe.tf.fn, probe.brick).brick]
  /\ UNCHANGED <<world, confirms, cmds, backups>>

\* obj.fn(ctx, filter.args) of the same call as a filter
CompileFilter ==
  /\ probe.stage = "transformed"
  /\ probe' = [probe EXCEPT !.stage = "recompiled"]
       @@ [fn |-> filter_fn(filterMap_get(toLowerCase(probe.call.name)),
                            ProbeCtx(probe.after), probe.call.args)]
  /\ UNCHANGED <<world, confirms, cmds, backups>>

\* ctx.localFilters[j](brick) on the brick the transform left
ApplyFilter ==
  /\ probe.stage = "recompiled"
  /\ probe.fn.ok
  /\ probe' = [probe EXCEPT !.stage = "filtered"]
       @@ [val |-> applyFilter(probe.fn.fn, probe.after, Colors)]
  /\ UNCHANGED <<world, confirms, cmds, backups>>

NextRound == CompileTransform \/ ApplyTransform \/ CompileFilter \/ ApplyFilter

SpecRound == InitRound /\ [][NextRound]_vars

\* ------------------------------------------------------------------------
\* The resize and resizeto transforms on their own: one call is compiled
\* and applied to one brick.
\* ------------------------------------------------------------------------
MaxAmount == 4      \* the amounts written are -MaxAmount .. MaxAmount

\* resize, resizeto and an alias of each
ResizeNames ==
  {<<"r","e","s","i","z","e">>, <<"a","r">>,
   <<"r","e","s","i","z","e","t","o">>, <<"r","t">>}

\* x, up and down: the factor of down is -1
ResizeAxes == {<<"x">>, <<"u","p">>, <<"d","o","w","n">>}

\* The amounts, plain and in micros
ResizeAmounts ==
  {ValueNumber(n, u) :
     n \in (0 - MaxAmount)..MaxAmount, u \in {<<>>, <<"m">>}}

resizeCall(name, axis, amount, center) ==
  Func(name, <<ValueString(axis), amount>>
             \o (IF center THEN <<ValueString(<<"c","e","n","t","e","r">>)>>
                 ELSE <<>>))

InitResize ==
  /\ world = <<>>
  /\ confirms = [p \in Players |-> 0]
  /\ cmds = <<>>
  /\ backups = [p \in Players |-> NoBackup]
  /\ \E name \in ResizeNames, axis \in ResizeAxes, amount \in ResizeAmounts,
        center \in BOOLEAN, b \in BrickKinds :
       probe = [stage |-> "parsed", brick |-> b,
                call |-> resizeCall(name, axis, amount, center)]

\* obj.fn(ctx, transform.args)
CompileResize ==
  /\ probe.stage = "parsed"
  /\ probe' = [probe EXCEPT !.stage = "compiled"]
       @@ [tf |-> transform_fn(transformMap_get(toLowerCase(probe.call.name)),
                               ProbeCtx(probe.brick), probe.call.args)]
  /\ UNCHANGED <<world, confirms, cmds, backups>>

\* ctx.localTransforms[j](brick)
ApplyResize ==
  /\ probe.stage = "compiled"
  /\ probe.tf.ok
  /\ probe' = [probe EXCEPT !.stage = "applied"]
       @@ [res |-> applyTransform(probe.tf.fn, probe.brick)]
  /\ UNCHANGED <<world, confirms, cmds, backups>>

NextResize == CompileResize \/ ApplyResize

SpecResize == InitResize /\ [][NextResize]_vars

\* ------------------------------------------------------------------------
\* Properties of the lexer
\* ------------------------------------------------------------------------
\* The names of a list of parsed calls
namesOf(fns) == [i \in DOMAIN fns |-> fns[i].name]

\* C11: a filter alias of the README written as a top-level filter call
\* before an operation keyword parses as that filter: `cp(right, >0)`
\* followed by an operation gives one filter named cp (the centerposition
\* alias) and the operation that follows it.
C11_AliasBeforeOperation ==
  (probe.stage = "parsed" /\ probe.calls = <<t_cp>> /\ probe.op # <<>>)
    => /\ probe.res.ok
       /\ namesOf(probe.res.value.filters) = << <<"c","p">> >>
       /\ probe.res.value.op = getOp(probe.op)

\* The call a text holds, read on its own
readAlone(text) == readFunction(text, 0, FALSE)

\* The text is one call and nothing else
wellFormed(text) == readAlone(text).ok /\ readAlone(text).col = Len(text)

\* The text starts with an operation keyword; it is nothing else
startsWithOp(text) ==
  firstWord(text, 0) # <<>> /\ getOp(firstWord(text, 0)) # OpUndefined
bareOp(text) == startsWithOp(text) /\ readIdentifier(text, 0).col = Len(text)

parsedAlone(texts) == [i \in DOMAIN texts |-> readAlone(texts[i]).value]

\* The words of the line after `all`, in order
wordsOf(p) == p.calls \o (IF p.op = <<>> THEN <<>> ELSE <<p.op>>) \o p.after

\* The place of the first word that starts with an operation keyword, 0 if
\* there is none
firstOp(words) ==
  IF \E k \in DOMAIN words : startsWithOp(words[k])
    THEN CHOOSE k \in DOMAIN words :
           startsWithOp(words[k]) /\ \A j \in 1..(k - 1) : ~startsWithOp(words[j])
    ELSE 0

splitAt(all, words, k) ==
  IF k = 0 THEN ParseResult(all, OpReplace, <<>>, parsedAlone(words))
  ELSE ParseResult(all, getOp(words[k]),
                   parsedAlone(SubSeq(words, 1, k - 1)),
                   parsedAlone(SubSeq(words, k + 1, Len(words))))

\* The result of p is the split at k of its well-formed words
splitHolds(p, words, k) ==
  (/\ \A i \in DOMAIN words : wellFormed(words[i])
   /\ k # 0 => bareOp(words[k]))
    => /\ p.res.ok
       /\ p.res.value = splitAt(p.all, words, k)

\* C12: a line of well-formed calls with no operation keyword parses to
\* Replace with no filter and every call, in its order, as a transform; a
\* line with an operation keyword parses to that operation, the calls
\* before the first keyword as the filters and every call after it as a
\* transform, operation keywords among them included.
C12_OperationSplit ==
  probe.stage = "parsed"
    => splitHolds(probe, wordsOf(probe), firstOp(wordsOf(probe)))

\* Two calls and no operation keyword: both are transforms of a Replace
C12_Witness ==
  /\ probe.stage = "parsed"
  /\ probe.calls = <<t_visible, t_mat>> /\ probe.op = <<>> /\ probe.after = <<>>
  /\ probe.res.ok
  /\ probe.res.value.op = OpReplace
  /\ probe.res.value.filters = <<>>
  /\ namesOf(probe.res.value.transforms) = <<t_visible, <<"m","a","t">> >>

\* The calls of a parse result, filters first
callsIn(res) == res.value.filters \o res.value.transforms

\* C13: a backslash in a quoted string escapes the next character: the
\* quote after it does not end the string, it is appended to the value and
\* the string runs to the next unescaped quote.  `mat("gl\"ow")` is read
\* as one call whose argument is the string gl"ow.
C13_EscapedQuote ==
  (probe.stage = "parsed" /\ probe.calls = <<t_escaped>>)
    => /\ probe.res.ok
       /\ callsIn(probe.res)[1].args
            = <<ValueString(<<"g","l","\"","o","w">>)>>

\* C17: a parse failure inside the argument list of a call that appears
\* as a value is reported as it occurred: when the line is not(inner) and
\* the inner call fails, the parse fails with the message of the inner
\* failure, at its column in the line (the 4 columns of `not(` further).
C17_InnerFailureReported ==
  \A inner \in LexInner :
    (probe.stage = "parsed" /\ probe.line = wrapped(inner))
      => /\ ~probe.res.ok
         /\ probe.res.message = readFunction(inner, 0, TRUE).message
         /\ probe.res.col = readFunction(inner, 0, TRUE).col + 4

\* ------------------------------------------------------------------------
\* Properties of numeric arguments
\* ------------------------------------------------------------------------
\* The multiplier of a recognised suffix
multiplier(units) ==
  IF units = <<"b","r","i","c","k","s">> THEN 12
  ELSE IF units = <<"s","t">> THEN 10
  ELSE IF units = <<"p","l">> THEN 4
  ELSE IF units = <<"m">> THEN 2
  ELSE 1

recognised(units) == units # <<"b","o","g","u","s">>

\* C14: unit conversion rewrites a plain number, and the bound of a range,
\* by the multiplier of its suffix, and fails with unknown_units when the
\* suffix is not recognised, whatever the number is.
C14_UnitsConverted ==
  probe.stage = "converted"
    => IF recognised(probe.units)
         THEN /\ probe.conv.ok
              /\ boundOf(probe.conv.value) = probe.n * multiplier(probe.units)
         ELSE /\ ~probe.conv.ok
              /\ probe.conv.err = "unknown_units"

\* C15: a test against a one-ended range accepts v exactly when v is
\* strictly inside the bound, or equals an inclusive bound (>m: v > m;
\* >=m: v >= m; <m: v < m; <=m: v <= m), bounds of 0 and negative bounds
\* included; a test against a plain number accepts exactly that number.
C15_RangeTest ==
  probe.stage = "tested"
    => (probe.val <=>
          IF probe.prefix = <<">">> THEN probe.v > boundOf(probe.conv.value)
          ELSE IF probe.prefix = <<">","=">>
            THEN probe.v >= boundOf(probe.conv.value)
          ELSE IF probe.prefix = <<"<">>
            THEN probe.v < boundOf(probe.conv.value)
          ELSE IF probe.prefix = <<"<","=">>
            THEN probe.v <= boundOf(probe.conv.value)
          ELSE probe.v = boundOf(probe.conv.value))

\* `>=0` accepts 0
C15_Witness ==
  /\ probe.stage = "tested"
  /\ probe.prefix = <<">","=">> /\ probe.n = 0
  /\ probe.conv.value.hasMin /\ probe.conv.value.min = 0
  /\ ~probe.conv.value.minEx
  /\ probe.v = 0
  /\ probe.val

\* ------------------------------------------------------------------------
\* Properties of the functions that are both filters and transforms
\* ------------------------------------------------------------------------
\* C16: for visibility, invisible, color, collision and decollide, with
\* every valid argument list and on every brick, the filter evaluated on
\* the brick its transform left returns true.
C16_RoundTrip ==
  /\ probe.stage = "compiled" => probe.tf.ok
  /\ probe.stage = "recompiled" => probe.fn.ok
  /\ probe.stage = "filtered" => probe.val

\* collision(off, player) changed the brick, and the filter accepts it
C16_Witness ==
  /\ probe.stage = "filtered"
  /\ probe.call = Func(<<"c","o","l","l","i","s","i","o","n">>,
                       <<ValueBoolean(FALSE),
                         ValueString(<<"p","l","a","y","e","r">>)>>)
  /\ probe.after # probe.brick
  /\ probe.after.collision.player /\ ~probe.after.collision.weapon
  /\ probe.val

\* All four flags set to b
allFlags(b) == [player |-> b, weapon |-> b, interaction |-> b, tool |-> b]

\* The flag an argument names
flagOf(arg) ==
  IF arg.value = <<"w">> THEN "weapon"
  ELSE IF arg.value = <<"p","l","a","y","e","r">> THEN "player"
  ELSE "interaction"

isFlagName(arg) == arg.type = "string" /\ arg.value # <<"t","o","o","l">>

\* C20: the collision transform given a boolean b sets the player, weapon,
\* interaction and tool flags of the brick to b; a flag name after the
\* boolean enables that one flag on top of it.
C20_BooleanSetsAllFlags ==
  (/\ probe.stage = "transformed"
   /\ probe.call.name = <<"c","o","l","l","i","s","i","o","n">>
   /\ Len(probe.call.args) >= 1
   /\ probe.call.args[1].type = "boolean")
    => /\ Len(probe.call.args) = 1
            => probe.after.collision = allFlags(probe.call.args[1].value)
       /\ (Len(probe.call.args) = 2 /\ isFlagName(probe.call.args[2]))
            => probe.after.collision
                 = [allFlags(probe.call.args[1].value)
                      EXCEPT ![flagOf(probe.call.args[2])] = TRUE]

\* ------------------------------------------------------------------------
\* Properties of resize and resizeto
\* ------------------------------------------------------------------------
\* C18: after a resize or a resizeto has been applied to a brick, the
\* transform signalled the removal of the brick or the size of the brick on
\* the resized axis is greater than 0, whatever the amount, with and
\* without `center`.
C18_NoDegenerateSize ==
  probe.stage = "applied"
    => \/ probe.res.removed
       \/ probe.res.brick.size[probe.tf.fn.axis + 1] > 0

\* The two edges of a brick on an axis: its size is its half-extent
edgeOf(e, brick, axis) ==
  IF e = "min" THEN brick.position[axis + 1] - brick.size[axis + 1]
  ELSE brick.position[axis + 1] + brick.size[axis + 1]

\* The edges a transform left where they were
anchored(before, after, axis) ==
  {e \in {"min", "max"} : edgeOf(e, after, axis) = edgeOf(e, before, axis)}

\* The call with the opposite amount, and what a call does to a brick
opposite(call) == [call EXCEPT !.args[2].value = 0 - @]
resultOf(call, brick) ==
  applyTransform(transform_fn(transformMap_get(toLowerCase(call.name)),
                              ProbeCtx(brick), call.args).fn, brick)

\* Both amounts kept the brick and changed it
bothResize(brick, neg, pos) ==
  ~neg.removed /\ ~pos.removed /\ neg.brick # brick /\ pos.brick # brick

\* A call without `center` and with a negative amount has been applied
negativeApplied ==
  /\ probe.stage = "applied"
  /\ Len(probe.call.args) = 2
  /\ probe.call.args[2].value < 0

anchorsOpposite(brick, axis, neg, pos) ==
  bothResize(brick, neg, pos)
    => /\ Cardinality(anchored(brick, pos.brick, axis)) = 1
       /\ anchored(brick, neg.brick, axis)
            = {"min", "max"} \ anchored(brick, pos.brick, axis)

anchorsSame(brick, axis, neg, pos) ==
  bothResize(brick, neg, pos)
    => /\ Cardinality(anchored(brick, pos.brick, axis)) = 1
       /\ anchored(brick, neg.brick, axis) = anchored(brick, pos.brick, axis)

\* C19: for resize and resizeto without `center`, on the same axis name, a
\* negative amount anchors the opposite edge to the one the positive amount
\* anchors: the edge that stays where it was under the positive amount
\* moves under the negative one.
C19_NegativeFlipsAnchor ==
  negativeApplied
    => anchorsOpposite(probe.brick, probe.tf.fn.axis, probe.res,
                       resultOf(opposite(probe.call), probe.brick))

\* C19, amended: resizeto without `center` anchors, for a negative amount,
\* the opposite edge to the one the positive amount anchors; resize without
\* `center` anchors the same edge for both, the edge the direction of the
\* axis gives, and a negative amount moves the other edge inwards.
C19_AnchorByKind ==
  negativeApplied
    => IF probe.tf.fn.k = "resizeto"
         THEN anchorsOpposite(probe.brick, probe.tf.fn.axis, probe.res,
                              resultOf(opposite(probe.call), probe.brick))
         ELSE anchorsSame(probe.brick, probe.tf.fn.axis, probe.res,
                          resultOf(opposite(probe.call), probe.brick))

\* resize(x, -2) shrank a brick from its upper edge, the lower edge kept,
\* as resize(x, 2) keeps it
C19_Witness ==
  /\ negativeApplied
  /\ probe.call.name = <<"r","e","s","i","z","e">>
  /\ probe.call.args[1].value = <<"x">>
  /\ probe.call.args[2] = ValueNumber(-2, <<>>)
  /\ ~probe.res.removed
  /\ probe.res.brick.size[1] = probe.brick.size[1] - 1
  /\ anchored(probe.brick, probe.res.brick, 0) = {"min"}
  /\ anchored(probe.brick,
              resultOf(opposite(probe.call), probe.brick).brick, 0) = {"min"}

\* ------------------------------------------------------------------------
\* getAxis over the yaw of the viewer
\* ------------------------------------------------------------------------
\* The yaw of a player transform is an angle of -MaxYaw..MaxYaw degrees
MaxYaw == 180

n_y == <<"y">>
n_z == <<"z">>
n_up == <<"u","p">>
n_down == <<"d","o","w","n">>
n_forward == <<"f","o","r","w","a","r","d">>
n_backward == <<"b","a","c","k","w","a","r","d">>
n_left == <<"l","e","f","t">>
n_right == <<"r","i","g","h","t">>

\* The names getAxis resolves against the yaw, and their aliases
ViewerNames ==
  { n_forward, <<"f","r","o","n","t">>, <<"f">>,
    n_backward, <<"b","a","c","k">>, <<"b">>,
    n_left, <<"l">>, n_right, <<"r">> }

\* The names getAxis is asked for: the fixed ones, the viewer's, one unknown
YawNames ==
  ViewerNames \cup {n_x, n_y, n_z, <<"t","o","p">>, n_up, <<"u">>,
                    <<"b","o","t","t","o","m">>, n_down, <<"d">>, <<"q">>}

\* The context of a viewer turned to yaw
ViewCtx(yaw, brick) == [ProbeCtx(brick) EXCEPT !.playerTransform.yaw = yaw]

InitYaw ==
  /\ world = <<>>
  /\ confirms = [p \in Players |-> 0]
  /\ cmds = <<>>
  /\ backups = [p \in Players |-> NoBackup]
  /\ \E yaw \in -MaxYaw..MaxYaw, b \in BrickKinds :
       probe = [stage |-> "yaw", yaw |-> yaw, brick |-> b]

\* getAxis(ctx, name)
GetAxis(name) ==
  /\ probe.stage = "yaw"
  /\ probe' = [probe EXCEPT !.stage = "axis"]
       @@ [name |-> name,
           ax |-> getAxis(ViewCtx(probe.yaw, probe.brick), name)]
  /\ UNCHANGED <<world, confirms, cmds, backups>>

NextYaw == \E name \in YawNames : GetAxis(name)

SpecYaw == InitYaw /\ [][NextYaw]_vars

\* ------------------------------------------------------------------------
\* The position filter over axes, numbers and ranges
\* ------------------------------------------------------------------------
\* Values and positions are of -MaxCoord..MaxCoord
MaxCoord == 2

\* One yaw in each quarter of the circle
AxisYaws == {-90, 0, 90, 135}

AxisNames ==
  {n_x, n_y, n_z, n_up, n_down, n_forward, n_backward, n_left, n_right,
   <<"q">>}

\* v, >v, >=v, <v, <=v and a string where the number is expected
AxisArgs ==
  { ValueNumber(v, <<>>) : v \in -MaxCoord..MaxCoord }
  \cup { RangeMin(v, ex, <<>>) : v \in -MaxCoord..MaxCoord, ex \in BOOLEAN }
  \cup { RangeMax(v, ex, <<>>) : v \in -MaxCoord..MaxCoord, ex \in BOOLEAN }
  \cup { ValueString(n_glow) }

\* A brick at p on every axis
AxisBrick(p) == Brick(1, <<p, p, p>>, <<5, 5, 2>>, 0, 5, <<0>>, TRUE, AllCollide)

InitAxis ==
  /\ world = <<>>
  /\ confirms = [p \in Players |-> 0]
  /\ cmds = <<>>
  /\ backups = [p \in Players |-> NoBackup]
  /\ \E yaw \in AxisYaws, name \in AxisNames, arg \in AxisArgs,
        p \in -MaxCoord..MaxCoord :
       probe = [stage |-> "parsed", yaw |-> yaw, brick |-> AxisBrick(p),
                args |-> <<ValueString(name), arg>>]

\* obj.fn(ctx, filter.args) of position
CompileAxis ==
  /\ probe.stage = "parsed"
  /\ probe' = [probe EXCEPT !.stage = "compiled"]
       @@ [fn |-> filter_position(ViewCtx(probe.yaw, probe.brick),
                                  probe.args)]
  /\ UNCHANGED <<world, confirms, cmds, backups>>

\* ctx.localFilters[j](brick)
TestAxis ==
  /\ probe.stage = "compiled"
  /\ probe.fn.ok
  /\ probe' = [probe EXCEPT !.stage = "tested"]
       @@ [val |-> applyFilter(probe.fn.fn, probe.brick, Colors)]
  /\ UNCHANGED <<world, confirms, cmds, backups>>

NextAxis == CompileAxis \/ TestAxis

SpecAxis == InitAxis /\ [][NextAxis]_vars

\* ------------------------------------------------------------------------
\* Properties of the axes
\* ------------------------------------------------------------------------
\* The name across from a name of the viewer, and the one a quarter turn on
acrossName(name) ==
  IF name \in {n_forward, <<"f","r","o","n","t">>, <<"f">>} THEN n_backward
  ELSE IF name \in {n_backward, <<"b","a","c","k">>, <<"b">>} THEN n_forward
  ELSE IF name \in {n_left, <<"l">>} THEN n_right
  ELSE IF name \in {n_right, <<"r">>} THEN n_left
  ELSE IF name = n_up THEN n_down
  ELSE IF name = n_down THEN n_up
  ELSE name
quarterName(name) ==
  IF name \in {n_forward, <<"f","r","o","n","t">>, <<"f">>} THEN n_right
  ELSE IF name \in {n_right, <<"r">>} THEN n_backward
  ELSE IF name \in {n_backward, <<"b","a","c","k">>, <<"b">>} THEN n_left
  ELSE n_forward

\* ax is a horizontal axis with a sign, across is the same axis with the
\* other sign, quarter is the other horizontal axis
viewerAxes(ax, across, quarter) ==
  /\ ax.ok /\ across.ok /\ quarter.ok
  /\ ax.value[1] \in {0, 1}
  /\ ax.value[2] \in {1, -1}
  /\ across.value = <<ax.value[1], -ax.value[2]>>
  /\ quarter.value[1] \in {0, 1} \ {ax.value[1]}

\* C28: for every yaw of -180..180 degrees, forward, backward, left and
\* right each resolve to axis 0 or 1 with sign +1 or -1; forward and
\* backward are the same axis with opposite signs, so are left and right,
\* and the axis of forward is not the axis of right.
C28_ViewerAxes ==
  (probe.stage = "axis" /\ probe.name \in ViewerNames)
    => viewerAxes(probe.ax,
                  getAxis(ViewCtx(probe.yaw, probe.brick),
                          acrossName(probe.name)),
                  getAxis(ViewCtx(probe.yaw, probe.brick),
                          quarterName(probe.name)))

\* backward resolved at yaw -180: along x
C28_Witness ==
  /\ probe.stage = "axis"
  /\ probe.yaw = -180
  /\ probe.name = n_backward
  /\ probe.ax = Return(<<0, 1>>)

\* C21: resolving a filter leaves every parsed value as the lexer made it,
\* for every axis name, those of sign -1 included.
C21_ParsedUnchanged ==
  probe.stage \in {"compiled", "tested"} => probe.fn.args = probe.args

\* The argument that selects, on the axis across, what arg selects
mirrored(arg) ==
  IF arg.type = "number" THEN ValueNumber(-arg.value, <<>>)
  ELSE IF arg.hasMin THEN RangeMax(-arg.min, arg.minEx, <<>>)
  ELSE RangeMin(-arg.max, arg.maxEx, <<>>)

\* Whether the compiled filter r selects the brick
selects(r, brick) == r.ok /\ applyFilter(r.fn, brick, Colors)

\* C30: position(down, v) selects a brick exactly when position(up, -v)
\* does, and position(down, >v) exactly when position(up, <-v) does;
\* likewise for >=, < and <=, and for forward/backward and left/right.
C30_OppositeAxes ==
  (/\ probe.stage = "tested"
   /\ acrossName(probe.args[1].value) # probe.args[1].value)
    => probe.val =
         selects(filter_position(
                   ViewCtx(probe.yaw, probe.brick),
                   <<ValueString(acrossName(probe.args[1].value)),
                     mirrored(probe.args[2])>>),
                 probe.brick)

\* ------------------------------------------------------------------------
\* The lexer on lines whose first word begins with `all`
\* ------------------------------------------------------------------------
\* alloy(glow), allvisible, ALL
t_alloy == <<"a","l","l","o","y","(","g","l","o","w",")">>
t_allvisible == <<"a","l","l","v","i","s","i","b","l","e">>
t_ALL == <<"A","L","L">>

\* The empty text stands for no word before the calls
AllFirsts == {<<>>, t_all, t_alloy, t_allvisible, t_ALL}
AllCallLists == UNION { [1..n -> {t_mat, t_visible, t_size}] : n \in 0..MaxCalls }

\* The words of the line, in order
firstAnd(first, calls, op) ==
  (IF first = <<>> THEN <<>> ELSE <<first>>) \o calls
  \o (IF op = <<>> THEN <<>> ELSE <<op>>)

InitAll ==
  /\ world = <<>>
  /\ confirms = [p \in Players |-> 0]
  /\ cmds = <<>>
  /\ backups = [p \in Players |-> NoBackup]
  /\ \E first \in AllFirsts, calls \in AllCallLists, op \in LexOps :
       probe = [stage |-> "line", first |-> first, calls |-> calls,
                op |-> op, line |-> joined(firstAnd(first, calls, op))]

SpecAll == InitAll /\ [][NextLex]_vars

\* ------------------------------------------------------------------------
\* Properties of the `all` flag
\* ------------------------------------------------------------------------
\* The calls the line holds: the first word is one of them unless it is `all`
callsOfLine(p) ==
  (IF p.first \in {<<>>, t_all} THEN <<>> ELSE <<p.first>>) \o p.calls

\* C22: the flag that applies the command to everything is set exactly
\* when the first token of the trimmed line is `all`; a line whose first
\* identifier only begins with `all` does not set it, and that identifier
\* is read as a function call.
C22_AllFlag ==
  probe.stage = "parsed"
    => /\ probe.res.ok
       /\ probe.res.value.all = (probe.first = t_all)
       /\ probe.res.value.filters \o probe.res.value.transforms
            = parsedAlone(callsOfLine(probe))

\* ------------------------------------------------------------------------
\* Properties of one iteration of the record loop
\* ------------------------------------------------------------------------
\* The loop stands before a record
pending(cmd) == cmd.pc = "pass" /\ cmd.i < Len(cmd.save.bricks)
current(cmd) == cmd.save.bricks[cmd.i + 1]

\* Some filter of the command returns false for the record
rejects(cmd) ==
  \E j \in DOMAIN cmd.localFilters :
    ~applyFilter(cmd.localFilters[j], current(cmd), cmd.save.colors)

\* Nothing of the pass but the cursor differs between cmd and next
onlyCursorMoved(cmd, next) ==
  /\ next.save = cmd.save
  /\ next.i = cmd.i + 1
  /\ next.filteredCount = cmd.filteredCount
  /\ next.deletedCount = cmd.deletedCount
  /\ next.filterBricks = cmd.filterBricks
  /\ next.matched = cmd.matched

RECURSIVE after(_, _, _)
after(fns, brick, n) ==
  IF n = 0 THEN brick
  ELSE applyTransform(fns[n], after(fns, brick, n - 1)).brick

\* Transform j, coming after the ones before it, signals removal
removes(fns, brick, j) ==
  applyTransform(fns[j], after(fns, brick, j - 1)).removed

\* The record is deleted: the next one takes its index as it was
deletedStep(cmd, next) ==
  /\ next.save.bricks = splice(cmd.save.bricks, cmd.i)
  /\ next.i = cmd.i
  /\ next.deletedCount = cmd.deletedCount + 1
  /\ next.filteredCount = cmd.filteredCount
  /\ next.filterBricks = cmd.filterBricks

\* The record is kept as all the transforms, in their order, leave it
keptStep(cmd, next, brick) ==
  /\ next.deletedCount = cmd.deletedCount
  /\ next.filteredCount = cmd.filteredCount + 1
  /\ IF cmd.parsed.op = OpExtract
       THEN /\ next.filterBricks = Append(cmd.filterBricks, brick)
            /\ next.save.bricks = splice(cmd.save.bricks, cmd.i)
            /\ next.i = cmd.i
       ELSE /\ next.filterBricks = cmd.filterBricks
            /\ next.save.bricks = [cmd.save.bricks EXCEPT ![cmd.i + 1] = brick]
            /\ next.i = cmd.i + 1

matchedStep(cmd, next, fns, brick) ==
  IF \E j \in DOMAIN fns : removes(fns, brick, j)
    THEN deletedStep(cmd, next)
    ELSE keptStep(cmd, next, after(fns, brick, Len(fns)))

\* C24: to a record that passes every filter the transforms are applied in
\* the order of their declaration; as soon as one signals removal the
\* record is deleted and the deleted count grows by one, and no later
\* transform is applied to it or to the record that takes its index.
C24_TransformsInOrder ==
  [][\A c \in DOMAIN cmds :
       (pending(cmds[c]) /\ ~rejects(cmds[c]))
         => matchedStep(cmds[c], cmds'[c], cmds[c].localTransforms,
                        current(cmds[c]))]_vars

\* `delete invisible` removed the first of two records: the second one
\* stands at its index, still visible
C24_Witness ==
  \E c \in DOMAIN cmds :
    /\ cmds[c].pc = "pass"
    /\ Len(cmds[c].localTransforms) = 2
    /\ cmds[c].localTransforms[1].k = "delete"
    /\ cmds[c].deletedCount = 1 /\ cmds[c].i = 0
    /\ Len(cmds[c].acquired) = 2
    /\ cmds[c].save.bricks = <<cmds[c].acquired[2]>>
    /\ cmds[c].save.bricks[1].visibility

\* ------------------------------------------------------------------------
\* Properties of the confirmation entries and of the backups
\* ------------------------------------------------------------------------
\* C25: the pending confirmation entry of a player is removed only by the
\* `ok`, the cancellation or the timer of the command that made it: the
\* timer of an earlier, cancelled `all` command never removes the entry of
\* a later one, which `/select ok` therefore confirms while it is pending.
C25_OwnEntryOnly ==
  [][\A p \in Players :
       (confirms[p] # 0 /\ confirms'[p] # confirms[p])
         => cmds'[confirms[p]] # cmds[confirms[p]]]_vars

\* The messages of the failures before the backup is stored
AcquireErrors == {"no_bricks_selected", "bad_version"}

\* C26: with backups enabled, a command that fails while its filters and
\* transforms are resolved leaves the stored backup as it was before the
\* command; here there was none.
C26_FailedKeepsBackup ==
  \A c \in DOMAIN cmds :
    (/\ Config.create_backups
     /\ cmds[c].pc = "error"
     /\ cmds[c].err \notin AcquireErrors)
      => backups[cmds[c].player] = NoBackup

\* The bricks of a world, as a set
bricksOf(bricks) == { bricks[n] : n \in DOMAIN bricks }

\* C27: after a Replace or an Extract that succeeded, /selectundo by the
\* same player, with no other change in between, leaves the set of bricks
\* the world had before the command, whatever the transforms, a translate
\* that moves bricks out of the selection included.
C27_UndoRoundTrip ==
  [][\A c \in DOMAIN cmds :
       (/\ cmds[c].pc = "done"
        /\ cmds[c].parsed.op \in {OpReplace, OpExtract}
        /\ backups[cmds[c].player].has
        /\ ~backups'[cmds[c].player].has)
         => bricksOf(world') = bricksOf(cmds[c].before)]_vars

\* ------------------------------------------------------------------------
\* Properties of resize without `center`
\* ------------------------------------------------------------------------
\* A resize without `center` has been applied and has kept the brick
resizeKept ==
  /\ probe.stage = "applied"
  /\ transformMap_get(toLowerCase(probe.call.name)) = "resize"
  /\ Len(probe.call.args) = 2
  /\ ~probe.res.removed

\* The size grew by half on the axis and the position went by half times
\* the sign, so the edge on the other side of the growth stayed
grownBy(was, now, ax, sidx, half) ==
  /\ now.size[sidx + 1] = was.size[sidx + 1] + half
  /\ now.position[ax[1] + 1] = was.position[ax[1] + 1] + ax[2] * half
  /\ now.position[ax[1] + 1] - ax[2] * now.size[sidx + 1]
       = was.position[ax[1] + 1] - ax[2] * was.size[sidx + 1]

\* C29: resize without `center` keeps the anchored edge where it was, for
\* every record it does not remove: the size grows by round(amount / 2) and
\* the position goes by the same amount, so that position - size stays for
\* an axis of sign +1 and position + size stays for an axis of sign -1.
C29_AnchoredEdgeFixed ==
  resizeKept
    => grownBy(probe.brick, probe.res.brick,
               getAxis(ProbeCtx(probe.brick), probe.call.args[1].value).value,
               getScaleAxis(probe.brick,
                            getAxis(ProbeCtx(probe.brick),
                                    probe.call.args[1].value).value[1]),
               roundHalf(convertNumberValueUnits(probe.call.args[2]).value.value))

\* `resize(down, 3)` grew a brick by 2 downwards: its top stayed
C29_Witness ==
  /\ resizeKept
  /\ probe.call.args[1].value = <<"d","o","w","n">>
  /\ probe.call.args[2] = ValueNumber(3, <<>>)
  /\ probe.res.brick.size[3] = probe.brick.size[3] + 2
  /\ probe.res.brick.position[3] = probe.brick.position[3] - 2

====
